---- MODULE Spec2Model ----
(***************************************************************************)
(* Resumable-Uploader: the upload orchestration engine.                    *)
(*                                                                         *)
(* One upload id is followed through UploadManager (uploadManager.ts),     *)
(* the zustand registry (uploadStore.ts) and S3UploadService               *)
(* (s3UploadService.ts).  JavaScript runs one macrotask at a time, so an   *)
(* action is the code between two awaits (with the promise continuations   *)
(* it triggers); every await is a place where the other actions may run.   *)
(* The storage backend is the environment: a multipart session, the parts  *)
(* it holds and the object assembled by the completion call.               *)
(***************************************************************************)
EXTENDS Integers, FiniteSets, Sequences, TLC

\* ---- bounds of the exploration ----
NumChunks   == 2   \* chunks of the file under upload (createFileChunks)
MaxLoops    == 2   \* processUpload activations followed at once
MaxPauses   == 1   \* pauseUpload calls by the caller
MaxResumes  == 1   \* resumeUpload calls by the caller
MaxCancels  == 1   \* cancelUpload calls by the caller
MaxValidates == 1  \* validateUpload calls by the caller
MaxFaults   == 1   \* backend requests that fail for transport reasons
\* the exploration of repeated failures (no pause, cancel or validateUpload)
MaxRetryFaults  == 2   \* backend requests that fail for transport reasons
MaxRetryResumes == 2   \* resumeUpload calls by the caller
\* the exploration of calls that are turned down
MaxRefusals == 1       \* calls that return early or throw

\* ---- program constants ----
\* maxConcurrentUploads is configured; validateS3Config accepts 1..10 (default
\* 3).  The smallest value is taken so that a file of NumChunks chunks spans
\* more than one batch.
maxConcurrentUploads == 1   \* S3UploadConfig.maxConcurrentUploads (1..10)
retryAttempts        == 3   \* S3UploadConfig.retryAttempts
MaxRecordRetries     == 3   \* handleUploadError: upload.retryCount < 3

Chunks == 1..NumChunks
Loops  == 1..MaxLoops

VARIABLES
  \* the record uploads[id] of the registry
  exists,            \* uploads[id] is present
  status,            \* FileUpload.status
  uploaded,          \* chunk numbers whose chunk.uploaded is true
  etag,              \* chunk numbers whose chunk.etag is set
  uploadedChunks,    \* FileUpload.uploadedChunks
  progress,          \* FileUpload.progress
  retryCount,        \* FileUpload.retryCount
  errorMessage,      \* FileUpload.errorMessage is set
  uploadId,          \* FileUpload.uploadId (the backend session id) is set
  validationResult,  \* FileUpload.validationResult: "none", "valid", or the error of
                     \*   an invalid result: "thrown", "size", "etags", "checksum", "parts"
  activeUploads,     \* id is in the store's activeUploads list
  speed,             \* speed/remainingTime have been sampled
  \* UploadManager
  activeUploadProcesses,  \* id is in activeUploadProcesses
  uploadTimers,           \* id has a progress timer in uploadTimers
  uploadStartTimes,       \* id has an entry in uploadStartTimes
  scheduled,              \* pending setTimeout(() => resumeUpload(id))
  \* S3UploadService
  s3ActiveUploads,   \* chunk -> loop whose AbortController is registered (0: none)
  \* continuations
  startPc,           \* startUpload: "idle", "init" (await initializeUpload), "done"
  lpc,               \* processUpload activation: "idle", "chunks", "completing",
                     \*   "validating", "aborting"
  task,              \* chunk task of a loop: "none", "inflight", "aborted",
                     \*   "backoff", "done", "failed"
  attempts,          \* the chunk task's local retryCount
  lstart,            \* chunk flags the loop saw when uploadChunksParallel began
  cparts,            \* parts list built by S3UploadService.completeUpload
  valBad,            \* validateFileIntegrity's snapshot: uploaded chunks without etag
  listing,           \* resumeUpload calls awaiting listUploadedParts
  cancelling,        \* cancelUpload calls awaiting abortUpload
  mvalPc,            \* validateUpload: "idle", "validating"
  mvalBad,           \* its validateFileIntegrity snapshot
  \* storage backend
  sess,              \* multipart session: "none", "open", "completed" (parts still
                     \*   listed), "expired" (completed and cleaned up), "aborted"
  s3Parts,           \* part numbers the session holds
  objExists,         \* the object has been assembled
  objParts,          \* the parts it was assembled from
  \* history
  abortCalls,        \* AbortMultipartUploadCommand requests issued
  nPause, nResume, nCancel, nValidate, nFaults,
  \* configuration, calls turned down, checksum
  cfgRetryAttempts,  \* S3UploadConfig.retryAttempts of this run
  refused,           \* the last call that returned early or threw ("none",
                     \*   "pause", "resume", "remove", "start", "resumeWithFile")
                     \*   and the status it found
  nRefused,          \* how many calls did
  checksum,          \* FileUpload.checksum: "none", "digest", "deferred"
  bgPc,              \* calculateChecksumInBackground: "idle", "running"
  valSum,            \* validateFileIntegrity's snapshot holds a digest to compare
                     \*   (index 0: the run started by validateUpload)
  lim,               \* how many caller operations and backend faults are explored
  \* the chunk plan of the record, its file and the persisted registry
  fileSize,          \* FileUpload.fileSize (0: no record yet)
  file,              \* FileUpload.file is a usable handle (it has a size)
  chunks,            \* FileUpload.chunks, the descriptors in list order
  totalChunks,       \* FileUpload.totalChunks
  storage,            \* the 'upload-storage' entry: <<>> or <<the record written>>
  planned,           \* the chunks startUpload planned (kept for comparison)
  replans,           \* resumeUploadWithFile calls that replaced the chunks
  \* S3UploadService.uploadChunk
  progressIntervals  \* a progressInterval of a request that failed is still set
                     \*   (its controller was not aborted)

recVars  == <<exists, status, uploaded, etag, uploadedChunks, progress, retryCount,
              errorMessage, uploadId, validationResult, activeUploads, speed>>
mgrVars  == <<activeUploadProcesses, uploadTimers, uploadStartTimes, scheduled>>
loopVars == <<s3ActiveUploads, lpc, task, attempts, lstart, cparts, valBad>>
procVars == <<startPc, listing, cancelling, mvalPc, mvalBad>>
s3Vars   == <<sess, s3Parts, objExists, objParts>>
histVars == <<abortCalls, nPause, nResume, nCancel, nValidate, nFaults>>
planVars == <<fileSize, file, chunks, totalChunks, storage, planned, replans>>
extVars  == <<cfgRetryAttempts, refused, nRefused, checksum, bgPc, valSum, lim,
              planVars, progressIntervals>>
vars == <<recVars, mgrVars, loopVars, procVars, s3Vars, histVars, extVars>>

\* the values of enum UploadStatus; VALIDATING is the member uploadManager.ts
\* writes at completeUpload and validateUpload, a value distinct from the others
UploadStatus == {"PENDING", "UPLOADING", "PAUSED", "RESUMING", "VALIDATING",
                 "COMPLETED", "ERROR", "CANCELLED"}

\* the exploration limits of the main specification
MainLimits ==
  [pauses |-> MaxPauses, resumes |-> MaxResumes, cancels |-> MaxCancels,
   validates |-> MaxValidates, faults |-> MaxFaults, refusals |-> 0]

\* the state after construction, for a configured retryAttempts ra and the
\* exploration limits lm
InitState(lm, ra) ==
  /\ exists = FALSE /\ status = "NONE"
  /\ uploaded = {} /\ etag = {}
  /\ uploadedChunks = 0 /\ progress = 0 /\ retryCount = 0
  /\ errorMessage = FALSE /\ uploadId = FALSE
  /\ validationResult = "none" /\ activeUploads = FALSE /\ speed = FALSE
  /\ activeUploadProcesses = FALSE /\ uploadTimers = FALSE
  /\ uploadStartTimes = FALSE /\ scheduled = 0
  /\ s3ActiveUploads = [c \in Chunks |-> 0]
  /\ startPc = "idle"
  /\ lpc = [l \in Loops |-> "idle"]
  /\ task = [l \in Loops |-> [c \in Chunks |-> "none"]]
  /\ attempts = [l \in Loops |-> [c \in Chunks |-> 0]]
  /\ lstart = [l \in Loops |-> {}]
  /\ cparts = [l \in Loops |-> {}]
  /\ valBad = [l \in Loops |-> {}]
  /\ listing = 0 /\ cancelling = 0
  /\ mvalPc = "idle" /\ mvalBad = {}
  /\ sess = "none" /\ s3Parts = {} /\ objExists = FALSE /\ objParts = {}
  /\ abortCalls = 0
  /\ nPause = 0 /\ nResume = 0 /\ nCancel = 0 /\ nValidate = 0 /\ nFaults = 0
  /\ cfgRetryAttempts = ra
  /\ refused = <<"none", "NONE">> /\ nRefused = 0
  /\ checksum = "none" /\ bgPc = "idle"
  /\ valSum = [l \in 0 .. MaxLoops |-> FALSE]
  /\ lim = lm
  /\ fileSize = 0 /\ file = FALSE /\ chunks = <<>> /\ totalChunks = 0
  /\ storage = <<>> /\ planned = <<>> /\ replans = 0
  /\ progressIntervals = FALSE

Init == InitState(MainLimits, retryAttempts)

\* ---- registry (uploadStore.ts) ----

\* markChunkUploaded recomputes the counters from the chunk flags.
\* Variant: the count is bumped on every acknowledgement instead of recounted.
CountUploadedIncrement(upl) == uploadedChunks + 1
CountUploaded(upl) == Cardinality(upl)
\* Variant: the progress field is left as it was when the flags change.
ProgressOfStale(n) == progress
\* Variant: the share of the chunks still to send.
ProgressOfRemaining(n) == ((NumChunks - n) * 100) \div NumChunks
ProgressOf(n) == (n * 100) \div NumChunks

\* ---- UploadManager helpers ----

\* the status checker handed to uploadChunksParallel
IsActive(st, act) == st = "UPLOADING" /\ act

\* a loop slot is free when its processUpload has returned and no chunk task
\* of it is still pending
TaskPending(l) == \E c \in Chunks : task[l][c] \in {"inflight", "aborted", "backoff"}
FreeLoops == {l \in Loops : lpc[l] = "idle" /\ ~TaskPending(l)}
FreeLoop == IF FreeLoops = {} THEN 0
            ELSE CHOOSE l \in FreeLoops : \A m \in FreeLoops : l <= m


\* tasks that have ended are forgotten once their processUpload has returned
Forget(pcs, tk) ==
  [l \in Loops |-> [c \in Chunks |->
     IF pcs[l] # "chunks" /\ tk[l][c] \in {"done", "failed"} THEN "none" ELSE tk[l][c]]]
ForgetAtt(tk, at) ==
  [l \in Loops |-> [c \in Chunks |-> IF tk[l][c] = "none" THEN 0 ELSE at[l][c]]]
ForgetStart(tk, ls) ==
  [l \in Loops |->
     IF \E c \in Chunks : tk[l][c] \in {"inflight", "aborted", "backoff"}
     THEN ls[l] ELSE {}]

\* processUpload's finally block
Finally ==
  /\ activeUploadProcesses' = FALSE
  /\ uploadTimers' = FALSE
  /\ uploadStartTimes' = FALSE

\* handleUploadError's test for another automatic resume, on the count n read
\* before incrementRetryCount
\* Variant: the count is not looked at.
ShouldRetryAlways(kind, n) == kind = "R"
ShouldRetry(kind, n) == kind = "R" /\ n < MaxRecordRetries

\* handleUploadError(error), error.retryable = (kind = "R")
HandleUploadError(kind) ==
  IF exists
  THEN /\ retryCount' = retryCount + 1
       /\ scheduled' = IF ShouldRetry(kind, retryCount)
                       THEN scheduled + 1 ELSE scheduled
       /\ status' = "ERROR"
       /\ errorMessage' = TRUE
  ELSE UNCHANGED <<retryCount, scheduled, status, errorMessage>>

\* S3UploadService.cancelFileUpload: abort every registered controller
CancelFileUpload(tk) ==
  [l \in Loops |-> [c \in Chunks |->
     IF s3ActiveUploads[c] = l /\ tk[l][c] = "inflight" THEN "aborted" ELSE tk[l][c]]]

\* processUpload(uploadId) up to its first await, called when the record has
\* status st, chunk flags upl and etags tg.  uploadChunksParallel starts the
\* task of every chunk not yet uploaded: the batch loop awaits nothing, so all
\* batches are issued in the same step.
\* Variant: the filter on the uploaded flag is dropped.
UnuploadedChunksUnfiltered(upl) == Chunks
UnuploadedChunks(upl) == {c \in Chunks : c \notin upl}
ProcessUpload(st, upl, tg) ==
  IF st \in {"PAUSED", "CANCELLED"} \/ activeUploadProcesses
  THEN /\ status' = st
       /\ UNCHANGED <<activeUploadProcesses, uploadTimers, uploadStartTimes,
                      s3ActiveUploads, lpc, task, attempts, lstart, cparts>>
  ELSE LET l == FreeLoop
           unup == UnuploadedChunks(upl)
       IN /\ l # 0
          /\ status' = "UPLOADING"
          /\ activeUploadProcesses' = TRUE
          /\ uploadStartTimes' = TRUE
          /\ uploadTimers' = TRUE
          /\ IF unup = {} \/ cfgRetryAttempts <= 0
             THEN \* nothing to send, or no attempt allowed (the while loop of
                  \* each chunk task ends before its first request and the
                  \* task resolves): completeUpload is entered at once
                  /\ lpc' = [lpc EXCEPT ![l] = "completing"]
                  /\ cparts' = [cparts EXCEPT ![l] = upl \cap tg]
                  /\ UNCHANGED <<task, attempts, lstart, s3ActiveUploads>>
             ELSE /\ lpc' = [lpc EXCEPT ![l] = "chunks"]
                  /\ lstart' = [lstart EXCEPT ![l] = upl]
                  /\ task' = [task EXCEPT ![l] =
                                [c \in Chunks |-> IF c \in unup THEN "inflight" ELSE "none"]]
                  /\ attempts' = [attempts EXCEPT ![l] = [c \in Chunks |-> 0]]
                  /\ s3ActiveUploads' = [c \in Chunks |->
                                           IF c \in unup THEN l ELSE s3ActiveUploads[c]]
                  /\ UNCHANGED cparts

\* the store's updateUpload, cancelUpload, setUploadStatus, updateUploadProgress
\* and incrementRetryCount on an id that has no entry: the spread of
\* state.uploads[uploadId] gives nothing, and the entry written holds only the
\* fields of the update
BlankEntry ==
  /\ exists' = TRUE
  /\ uploaded' = {} /\ etag' = {}
  /\ uploadedChunks' = 0 /\ progress' = 0 /\ retryCount' = 0
  /\ errorMessage' = FALSE /\ uploadId' = FALSE
  /\ validationResult' = "none" /\ speed' = FALSE

\* ---- startUpload ----

\* startUpload up to await initializeUpload, calculateFileChecksum resolved:
\* the record is added as PENDING with its digest
StartUpload ==
  /\ startPc = "idle"
  /\ startPc' = "init"
  /\ exists' = TRUE
  /\ status' = "PENDING"
  /\ activeUploads' = TRUE
  /\ UNCHANGED <<uploaded, etag, uploadedChunks, progress, retryCount, errorMessage,
                 uploadId, validationResult, speed>>
  /\ UNCHANGED <<mgrVars, loopVars, listing, cancelling, mvalPc, mvalBad, s3Vars, histVars>>
  /\ checksum' = "digest"
  /\ UNCHANGED <<cfgRetryAttempts, refused, nRefused, bgPc, valSum, lim, planVars, progressIntervals>>

\* the status of the record added after calculateFileChecksum rejected: the
\* catch block goes on with checksum 'deferred'
\* Variant: the failure fails the upload.
StatusAfterChecksumFailureError(st) == "ERROR"
StatusAfterChecksumFailure(st) == st

\* the same with calculateFileChecksum rejected
StartUploadChecksumFailed ==
  /\ startPc = "idle"
  /\ startPc' = "init"
  /\ exists' = TRUE
  /\ status' = StatusAfterChecksumFailure("PENDING")
  /\ activeUploads' = TRUE
  /\ UNCHANGED <<uploaded, etag, uploadedChunks, progress, retryCount, errorMessage,
                 uploadId, validationResult, speed>>
  /\ UNCHANGED <<mgrVars, loopVars, listing, cancelling, mvalPc, mvalBad, s3Vars, histVars>>
  /\ checksum' = "deferred"
  /\ UNCHANGED <<cfgRetryAttempts, refused, nRefused, bgPc, valSum, lim, planVars, progressIntervals>>

\* initializeUpload resolved: the record gets the session id and UPLOADING,
\* whatever its status is by now, and processUpload starts
StartInitOk ==
  /\ startPc = "init"
  /\ startPc' = "done"
  /\ sess' = "open"
  /\ uploadId' = TRUE
  /\ ProcessUpload("UPLOADING", uploaded, etag)
  /\ UNCHANGED <<exists, uploaded, etag, uploadedChunks, progress, retryCount,
                 errorMessage, validationResult, activeUploads, speed>>
  /\ UNCHANGED <<scheduled, valBad, listing, cancelling, mvalPc, mvalBad>>
  /\ UNCHANGED <<s3Parts, objExists, objParts, histVars>>
  /\ bgPc' = IF checksum = "deferred" THEN "running" ELSE bgPc
  /\ UNCHANGED <<cfgRetryAttempts, refused, nRefused, checksum, valSum, lim, planVars, progressIntervals>>

\* initializeUpload rejected
StartInitFail ==
  /\ startPc = "init"
  /\ nFaults < lim.faults
  /\ startPc' = "done"
  /\ nFaults' = nFaults + 1
  /\ status' = "ERROR"
  /\ errorMessage' = TRUE
  /\ UNCHANGED <<exists, uploaded, etag, uploadedChunks, progress, retryCount,
                 uploadId, validationResult, activeUploads, speed>>
  /\ UNCHANGED <<mgrVars, loopVars, listing, cancelling, mvalPc, mvalBad, s3Vars>>
  /\ UNCHANGED <<abortCalls, nPause, nResume, nCancel, nValidate>>
  /\ UNCHANGED extVars


\* ---- the chunk loop (S3UploadService.uploadChunksParallel) ----

OthersDone(l, c) == \A d \in Chunks \ {c} : task[l][d] \in {"none", "done"}

\* uploadChunk resolved with an ETag: onChunkComplete -> markChunkUploaded,
\* onProgress -> updateUploadProgress.  When it was the last task of the
\* loop, Promise.all resolves and processUpload goes on to completeUpload.
ChunkSuccess(l, c) ==
  /\ task[l][c] = "inflight"
  /\ uploadId /\ sess = "open"
  /\ LET upl2 == IF exists THEN uploaded \cup {c} ELSE uploaded
         tg2  == IF exists THEN etag \cup {c} ELSE etag
         settles == lpc[l] = "chunks" /\ OthersDone(l, c)
         goComplete == settles /\ exists /\ IsActive(status, activeUploadProcesses)
         pcs == [lpc EXCEPT ![l] = IF goComplete THEN "completing"
                                   ELSE IF settles THEN "idle" ELSE @]
         tk  == Forget(pcs, [task EXCEPT ![l][c] = "done"])
     IN /\ s3Parts' = s3Parts \cup {c}
        /\ s3ActiveUploads' = [s3ActiveUploads EXCEPT ![c] = 0]
        /\ uploaded' = upl2
        /\ etag' = tg2
        /\ uploadedChunks' = IF exists THEN CountUploaded(upl2) ELSE uploadedChunks
        /\ progress' = IF exists THEN ProgressOf(CountUploaded(upl2)) ELSE progress
        /\ speed' = (speed \/ (exists /\ uploadStartTimes))
        /\ lpc' = pcs
        /\ task' = tk
        /\ attempts' = ForgetAtt(tk, attempts)
        /\ lstart' = ForgetStart(tk, lstart)
        /\ cparts' = IF goComplete THEN [cparts EXCEPT ![l] = upl2 \cap tg2] ELSE cparts
        /\ IF settles /\ ~goComplete
           THEN Finally
           ELSE UNCHANGED <<activeUploadProcesses, uploadTimers, uploadStartTimes>>
  /\ UNCHANGED <<exists, status, retryCount, errorMessage, uploadId, validationResult,
                 activeUploads, scheduled, valBad, procVars, sess, objExists, objParts,
                 histVars>>
  /\ UNCHANGED extVars

\* the chunk task gives up: retryCount >= this.config.retryAttempts after the
\* increment
\* Variant: the task gives up one failed attempt later.
BudgetUsedLate(count, budget) == count > budget
BudgetUsed(count, budget) == count >= budget

\* the catch block of a chunk task after a failed attempt with an error of the
\* given kind ("R" retryable, "N" not); run = FALSE when the task stops at the
\* status check before an attempt
TaskCatch(l, c, kind, run) ==
  LET act == exists /\ IsActive(status, activeUploadProcesses)
      att2 == attempts[l][c] + 1
      throws == ~run \/ ~act \/ BudgetUsed(att2, cfgRetryAttempts)
      settles == throws /\ lpc[l] = "chunks"
      handled == settles /\ act
      pcs == [lpc EXCEPT ![l] = IF settles THEN "idle" ELSE @]
      tk  == Forget(pcs, [task EXCEPT ![l][c] = IF throws THEN "failed" ELSE "backoff"])
  IN /\ lpc' = pcs
     /\ task' = tk
     /\ attempts' = ForgetAtt(tk, [attempts EXCEPT ![l][c] = IF throws THEN @ ELSE att2])
     /\ lstart' = ForgetStart(tk, lstart)
     /\ IF handled THEN HandleUploadError(kind)
                   ELSE UNCHANGED <<retryCount, scheduled, status, errorMessage>>
     /\ IF settles THEN Finally
                   ELSE UNCHANGED <<activeUploadProcesses, uploadTimers, uploadStartTimes>>

\* the request failed: a transport fault, or the session does not take parts.
\* uploadChunk clears its progressInterval only after send has resolved, so
\* the interval of this request stays set.
ChunkFail(l, c) ==
  /\ task[l][c] = "inflight"
  /\ \E kind \in {"R", "N"} :
       /\ \/ /\ nFaults < lim.faults
             /\ nFaults' = nFaults + 1
          \/ /\ ~(uploadId /\ sess = "open")
             /\ kind = "N"
             /\ UNCHANGED nFaults
       /\ TaskCatch(l, c, kind, TRUE)
  /\ s3ActiveUploads' = [s3ActiveUploads EXCEPT ![c] = 0]
  /\ progressIntervals' = TRUE
  /\ UNCHANGED <<exists, uploaded, etag, uploadedChunks, progress, uploadId,
                 validationResult, activeUploads, speed, cparts, valBad, procVars, s3Vars>>
  /\ UNCHANGED <<abortCalls, nPause, nResume, nCancel, nValidate>>
  /\ UNCHANGED <<cfgRetryAttempts, refused, nRefused, checksum, bgPc, valSum, lim,
                 planVars>>

\* the request was aborted by cancelFileUpload; the backend may have stored
\* the part before the abort reached it
ChunkAborted(l, c) ==
  /\ task[l][c] = "aborted"
  /\ \E stored \in BOOLEAN :
       /\ stored => (uploadId /\ sess = "open")
       /\ s3Parts' = IF stored THEN s3Parts \cup {c} ELSE s3Parts
  /\ TaskCatch(l, c, "N", TRUE)
  /\ s3ActiveUploads' = [s3ActiveUploads EXCEPT ![c] = 0]
  /\ UNCHANGED <<exists, uploaded, etag, uploadedChunks, progress, uploadId,
                 validationResult, activeUploads, speed, cparts, valBad, procVars,
                 sess, objExists, objParts, histVars>>
  /\ UNCHANGED extVars

\* the backoff sleep is over: the while loop checks the status and tries again
BackoffWake(l, c) ==
  /\ task[l][c] = "backoff"
  /\ IF exists /\ IsActive(status, activeUploadProcesses)
     THEN /\ task' = [task EXCEPT ![l][c] = "inflight"]
          /\ s3ActiveUploads' = [s3ActiveUploads EXCEPT ![c] = l]
          /\ UNCHANGED <<lpc, attempts, lstart, retryCount, scheduled, status,
                         errorMessage, activeUploadProcesses, uploadTimers,
                         uploadStartTimes>>
     ELSE /\ TaskCatch(l, c, "N", FALSE)
          /\ UNCHANGED s3ActiveUploads
  /\ UNCHANGED <<exists, uploaded, etag, uploadedChunks, progress, uploadId,
                 validationResult, activeUploads, speed, cparts, valBad, procVars,
                 s3Vars, histVars>>
  /\ UNCHANGED extVars


\* ---- storage backend answers ----

\* listUploadedParts: <<part numbers, transport fault used>>.
\* S3UploadService.listUploadedParts turns every error into the empty list.
ListAnswers ==
  IF uploadId /\ sess \in {"open", "completed"}
  THEN {<<s3Parts, FALSE>>} \cup (IF nFaults < lim.faults THEN {<<{}, TRUE>>} ELSE {})
  ELSE {<<{}, FALSE>>}

\* getObjectInfo: <<answered, parts held by the object, transport fault used>>.
\* The object has the size of the file iff it holds every part.
GetObjectInfo ==
  (IF objExists THEN {<<TRUE, objParts, FALSE>>} ELSE {<<FALSE, {}, FALSE>>})
    \cup (IF nFaults < lim.faults THEN {<<FALSE, {}, TRUE>>} ELSE {})

\* validateFileIntegrity with the snapshot bad (chunks flagged uploaded without
\* etag) and sum (the snapshot holds a digest): <<result, transport fault used,
\* error>>, result "valid", "corrupted" (corruptedChunks = bad) or "invalid"
\* (no chunk named).  At most one backend call of a run is faulty.
ValidationOutcomes(bad, sum) ==
  LET partsStep(f) ==       \* step 4: the part count, when there is a session id
        IF ~uploadId THEN {<<"valid", f, "none">>}
        ELSE {<<IF Cardinality(a[1]) = NumChunks THEN "valid" ELSE "invalid",
                f \/ a[2],
                IF Cardinality(a[1]) = NumChunks THEN "none" ELSE "parts">> :
                 a \in {b \in ListAnswers : ~(f /\ b[2])}}
      digestStep ==         \* step 3: the digest of the download, when one is known
        IF sum /\ nFaults < lim.faults
        THEN {<<"invalid", TRUE, "checksum">>}      \* the digests differ
               \cup partsStep(TRUE)                 \* the download failed: ignored
               \cup partsStep(FALSE)
        ELSE partsStep(FALSE)
      after(info) ==
        IF ~info[1] THEN {<<"invalid", info[3], "thrown">>}           \* outer catch
        ELSE IF info[2] # Chunks THEN {<<"invalid", info[3], "size">>} \* step 1
        ELSE IF bad # {} THEN {<<"corrupted", info[3], "etags">>}     \* step 2
        ELSE digestStep
  IN UNION {after(info) : info \in GetObjectInfo}

\* AbortMultipartUploadCommand: <<session after, transport fault used>>; only an
\* open session can be aborted, every other answer is an error abortUpload logs
AbortAnswers ==
  IF sess = "open"
  THEN {<<"aborted", FALSE>>} \cup (IF nFaults < lim.faults THEN {<<sess, TRUE>>} ELSE {})
  ELSE {<<sess, FALSE>>}

\* the backend drops a completed session: its parts are no longer listed
S3CleanupSession ==
  /\ sess = "completed"
  /\ sess' = "expired"
  /\ UNCHANGED <<recVars, mgrVars, loopVars, procVars, s3Parts, objExists, objParts,
                 histVars>>
  /\ UNCHANGED extVars

BadChunks(upl, tg) == {c \in upl : c \notin tg}

\* the storage object is replaced by one that lacks the bytes of a part
\* (counted as a fault): its size is no longer the size of the file
S3AlterObject(c) ==
  /\ nFaults < lim.faults
  /\ objExists /\ c \in objParts
  /\ nFaults' = nFaults + 1
  /\ objParts' = objParts \ {c}
  /\ UNCHANGED <<recVars, mgrVars, loopVars, procVars, sess, s3Parts, objExists>>
  /\ UNCHANGED <<abortCalls, nPause, nResume, nCancel, nValidate>>
  /\ UNCHANGED extVars

\* the backend loses a part it had acknowledged (counted as a fault)
S3LosePart(c) ==
  /\ sess = "open"
  /\ c \in s3Parts
  /\ nFaults < lim.faults
  /\ nFaults' = nFaults + 1
  /\ s3Parts' = s3Parts \ {c}
  /\ UNCHANGED <<recVars, mgrVars, loopVars, procVars, sess, objExists, objParts>>
  /\ UNCHANGED <<abortCalls, nPause, nResume, nCancel, nValidate>>
  /\ UNCHANGED extVars

\* ---- completeUpload ----

\* CompleteMultipartUploadCommand succeeded: the object is assembled from the
\* parts listed; the record goes to VALIDATING with progress 100 and
\* validateFileIntegrity takes its snapshot
CompleteOk(l) ==
  /\ lpc[l] = "completing"
  /\ uploadId /\ sess = "open" /\ cparts[l] # {} /\ cparts[l] \subseteq s3Parts
  /\ sess' = "completed"
  /\ objExists' = TRUE
  /\ objParts' = cparts[l]
  /\ status' = "VALIDATING"
  /\ progress' = 100
  /\ lpc' = [lpc EXCEPT ![l] = "validating"]
  /\ valBad' = [valBad EXCEPT ![l] = BadChunks(uploaded, etag)]
  /\ valSum' = [valSum EXCEPT ![l] = (checksum = "digest")]
  /\ UNCHANGED <<exists, uploaded, etag, uploadedChunks, retryCount, errorMessage,
                 uploadId, validationResult, activeUploads, speed>>
  /\ UNCHANGED <<mgrVars, s3ActiveUploads, task, attempts, lstart, cparts, procVars, s3Parts,
                 histVars>>
  /\ UNCHANGED <<cfgRetryAttempts, refused, nRefused, checksum, bgPc, lim, planVars, progressIntervals>>

\* it failed: completeUpload's catch calls handleUploadError, whatever the
\* status is by now, and processUpload's finally runs
CompleteFail(l) ==
  /\ lpc[l] = "completing"
  /\ \E kind \in {"R", "N"} :
       /\ \/ /\ nFaults < lim.faults
             /\ nFaults' = nFaults + 1
          \/ /\ ~(uploadId /\ sess = "open" /\ cparts[l] # {} /\ cparts[l] \subseteq s3Parts)
             /\ kind = "N"
             /\ UNCHANGED nFaults
       /\ HandleUploadError(kind)
  /\ lpc' = [lpc EXCEPT ![l] = "idle"]
  /\ Finally
  /\ UNCHANGED <<exists, uploaded, etag, uploadedChunks, progress, uploadId,
                 validationResult, activeUploads, speed>>
  /\ UNCHANGED <<s3ActiveUploads, task, attempts, lstart, cparts, valBad, procVars, s3Vars>>
  /\ UNCHANGED <<abortCalls, nPause, nResume, nCancel, nValidate>>
  /\ UNCHANGED extVars

\* handleCorruptedFile clears uploaded and etag of the chunks reported
\* Variant: nothing is cleared.
InvalidateChunksKept(set, bad) == set
InvalidateChunks(set, bad) == set \ bad

\* validateFileIntegrity returned inside completeUpload
ValidationFinish(l) ==
  /\ lpc[l] = "validating"
  /\ \E o \in ValidationOutcomes(valBad[l], valSum[l]) :
       /\ nFaults' = IF o[2] THEN nFaults + 1 ELSE nFaults
       /\ CASE o[1] = "valid" ->
                 /\ status' = "COMPLETED"
                 /\ progress' = 100
                 /\ validationResult' = "valid"
                 /\ lpc' = [lpc EXCEPT ![l] = "idle"]
                 /\ Finally
                 /\ UNCHANGED <<uploaded, etag, uploadedChunks, errorMessage, scheduled,
                                abortCalls>>
            [] o[1] = "corrupted" ->
                 \* handleCorruptedFile: clear the chunks named, retry in 2s
                 LET upl2 == InvalidateChunks(uploaded, valBad[l]) IN
                 /\ uploaded' = upl2
                 /\ etag' = InvalidateChunks(etag, valBad[l])
                 /\ status' = "ERROR"
                 /\ errorMessage' = TRUE
                 /\ uploadedChunks' = CountUploaded(upl2)
                 /\ progress' = ProgressOf(CountUploaded(upl2))
                 /\ scheduled' = scheduled + 1
                 /\ lpc' = [lpc EXCEPT ![l] = "idle"]
                 /\ Finally
                 /\ UNCHANGED <<validationResult, abortCalls>>
            [] OTHER ->
                 \* handleCorruptedFile: no chunk to blame, abort the session
                 /\ status' = "ERROR"
                 /\ errorMessage' = TRUE
                 /\ validationResult' = o[3]
                 /\ IF uploadId
                    THEN /\ abortCalls' = abortCalls + 1
                         /\ lpc' = [lpc EXCEPT ![l] = "aborting"]
                         /\ UNCHANGED <<activeUploadProcesses, uploadTimers,
                                        uploadStartTimes>>
                    ELSE /\ lpc' = [lpc EXCEPT ![l] = "idle"]
                         /\ Finally
                         /\ UNCHANGED abortCalls
                 /\ UNCHANGED <<uploaded, etag, uploadedChunks, progress, scheduled>>
  /\ UNCHANGED <<exists, retryCount, uploadId, activeUploads, speed>>
  /\ UNCHANGED <<s3ActiveUploads, task, attempts, lstart, cparts, valBad, procVars, s3Vars>>
  /\ UNCHANGED <<nPause, nResume, nCancel, nValidate>>
  /\ UNCHANGED extVars

\* handleCorruptedFile's abortUpload returned; processUpload's finally runs
CorruptedAbortReturn(l) ==
  /\ lpc[l] = "aborting"
  /\ \E a \in AbortAnswers :
       /\ sess' = a[1]
       /\ s3Parts' = IF a[1] = "aborted" THEN {} ELSE s3Parts
       /\ nFaults' = IF a[2] THEN nFaults + 1 ELSE nFaults
  /\ lpc' = [lpc EXCEPT ![l] = "idle"]
  /\ Finally
  /\ UNCHANGED <<recVars, scheduled, s3ActiveUploads, task, attempts, lstart, cparts, valBad,
                 procVars, objExists, objParts>>
  /\ UNCHANGED <<abortCalls, nPause, nResume, nCancel, nValidate>>
  /\ UNCHANGED extVars


\* ---- pauseUpload ----

\* pauseUpload goes on only for a record that is UPLOADING
\* Variant: the status test is missing.
PauseAppliesAnyStatus(ex, st) == ex
PauseApplies(ex, st) == ex /\ st = "UPLOADING"

PauseUpload ==
  /\ nPause < lim.pauses
  /\ PauseApplies(exists, status)
  /\ nPause' = nPause + 1
  /\ activeUploadProcesses' = FALSE
  /\ task' = CancelFileUpload(task)
  /\ s3ActiveUploads' = [c \in Chunks |-> 0]
  /\ uploadTimers' = FALSE
  /\ status' = "PAUSED"
  /\ UNCHANGED <<exists, uploaded, etag, uploadedChunks, progress, retryCount,
                 errorMessage, uploadId, validationResult, activeUploads, speed>>
  /\ UNCHANGED <<uploadStartTimes, scheduled, lpc, attempts, lstart, cparts, valBad, procVars,
                 s3Vars>>
  /\ UNCHANGED <<abortCalls, nResume, nCancel, nValidate,
                 nFaults>>
  /\ UNCHANGED extVars

\* pauseUpload returns at once: no record, or not UPLOADING
PauseUploadIgnored ==
  /\ nRefused < lim.refusals
  /\ ~PauseApplies(exists, status)
  /\ nRefused' = nRefused + 1
  /\ refused' = <<"pause", status>>
  /\ UNCHANGED <<recVars, mgrVars, loopVars, procVars, s3Vars, histVars>>
  /\ UNCHANGED <<cfgRetryAttempts, checksum, bgPc, valSum, lim, planVars, progressIntervals>>

\* ---- resumeUpload ----

\* resumeUpload throws unless the record exists and is PAUSED or ERROR
\* Variant: the status test is missing.
ResumeAcceptedAnyStatus(ex, st) == ex
ResumeAccepted(ex, st) == ex /\ st \in {"PAUSED", "ERROR"}

\* resumeUpload up to its await: with a session id it asks the backend for
\* the parts, without one it goes straight to RESUMING and processUpload
ResumeCall ==
  IF uploadId
  THEN /\ listing' = listing + 1
       /\ UNCHANGED <<status, activeUploadProcesses, uploadTimers, uploadStartTimes,
                      s3ActiveUploads, lpc, task, attempts, lstart, cparts>>
  ELSE /\ ProcessUpload("RESUMING", uploaded, etag)
       /\ UNCHANGED listing

\* the caller resumes
ResumeUpload ==
  /\ nResume < lim.resumes
  /\ ResumeAccepted(exists, status)
  /\ nResume' = nResume + 1
  /\ ResumeCall
  /\ UNCHANGED <<exists, uploaded, etag, uploadedChunks, progress, retryCount,
                 errorMessage, uploadId, validationResult, activeUploads, speed>>
  /\ UNCHANGED <<scheduled, valBad, startPc, cancelling, mvalPc, mvalBad, s3Vars>>
  /\ UNCHANGED <<abortCalls, nPause, nCancel, nValidate,
                 nFaults>>
  /\ UNCHANGED extVars

\* resumeUpload throws 'Upload not found' or 'Upload cannot be resumed'
ResumeUploadRejected ==
  /\ nRefused < lim.refusals
  /\ ~ResumeAccepted(exists, status)
  /\ nRefused' = nRefused + 1
  /\ refused' = <<"resume", status>>
  /\ UNCHANGED <<recVars, mgrVars, loopVars, procVars, s3Vars, histVars>>
  /\ UNCHANGED <<cfgRetryAttempts, checksum, bgPc, valSum, lim, planVars, progressIntervals>>

\* resumeUploadWithFile with the matching file on a record that resumeUpload
\* then turns down: the chunks are recreated with their flags and etags
\* and errorMessage is cleared before resumeUpload throws
ResumeUploadWithFileRejected ==
  /\ nRefused < lim.refusals
  /\ exists /\ ~ResumeAccepted(exists, status)
  /\ nRefused' = nRefused + 1
  /\ refused' = <<"resume", status>>
  /\ errorMessage' = FALSE
  /\ UNCHANGED <<exists, status, uploaded, etag, uploadedChunks, progress, retryCount,
                 uploadId, validationResult, activeUploads, speed>>
  /\ UNCHANGED <<mgrVars, loopVars, procVars, s3Vars, histVars>>
  /\ UNCHANGED <<cfgRetryAttempts, checksum, bgPc, valSum, lim, planVars, progressIntervals>>

\* resumeUploadWithFile with the matching file on a PAUSED or ERROR record:
\* the chunks are recreated (a flagged chunk keeps flag and etag, the others
\* have neither), errorMessage is cleared, and resumeUpload runs up to its
\* await
ResumeUploadWithFileAccepted ==
  /\ nResume < lim.resumes
  /\ ResumeAccepted(exists, status)
  /\ nResume' = nResume + 1
  /\ etag' = etag \cap uploaded
  /\ errorMessage' = FALSE
  /\ ResumeCall
  /\ UNCHANGED <<exists, uploaded, uploadedChunks, progress, retryCount,
                 uploadId, validationResult, activeUploads, speed>>
  /\ UNCHANGED <<scheduled, valBad, startPc, cancelling, mvalPc, mvalBad, s3Vars>>
  /\ UNCHANGED <<abortCalls, nPause, nCancel, nValidate, nFaults>>
  /\ UNCHANGED extVars

\* a retry timer set by handleUploadError or handleCorruptedFile fires
ScheduledResume ==
  /\ scheduled > 0
  /\ scheduled' = scheduled - 1
  /\ IF ResumeAccepted(exists, status)
     THEN ResumeCall
     ELSE UNCHANGED <<listing, status, activeUploadProcesses, uploadTimers,
                      uploadStartTimes, s3ActiveUploads, lpc, task, attempts, lstart,
                      cparts>>
  /\ UNCHANGED <<exists, uploaded, etag, uploadedChunks, progress, retryCount,
                 errorMessage, uploadId, validationResult, activeUploads, speed>>
  /\ UNCHANGED <<valBad, startPc, cancelling, mvalPc, mvalBad, s3Vars, histVars>>
  /\ UNCHANGED extVars

\* listUploadedParts returned: every part listed is marked by
\* markChunkUploaded(uploadId, partNumber), then RESUMING and processUpload
ResumeListReturn ==
  /\ listing > 0
  /\ listing' = listing - 1
  /\ \E a \in ListAnswers :
       LET upl2 == IF exists THEN uploaded \cup a[1] ELSE uploaded
           tg2  == IF exists THEN etag \ a[1] ELSE etag
           touched == exists /\ a[1] # {}
       IN /\ nFaults' = IF a[2] THEN nFaults + 1 ELSE nFaults
          /\ uploaded' = upl2
          /\ etag' = tg2
          /\ uploadedChunks' = IF touched THEN CountUploaded(upl2) ELSE uploadedChunks
          /\ progress' = IF touched THEN ProgressOf(CountUploaded(upl2)) ELSE progress
          /\ ProcessUpload("RESUMING", upl2, tg2)
  /\ UNCHANGED <<exists, retryCount, errorMessage, uploadId, validationResult,
                 activeUploads, speed>>
  /\ UNCHANGED <<scheduled, valBad, startPc, cancelling, mvalPc, mvalBad, s3Vars>>
  /\ UNCHANGED <<abortCalls, nPause, nResume, nCancel, nValidate>>
  /\ UNCHANGED extVars

\* ---- cancelUpload ----

\* cancelUpload up to its await; without a session id there is no await and
\* the record is CANCELLED in the same step
CancelUpload ==
  /\ nCancel < lim.cancels
  /\ exists
  /\ nCancel' = nCancel + 1
  /\ task' = CancelFileUpload(task)
  /\ s3ActiveUploads' = [c \in Chunks |-> 0]
  /\ uploadTimers' = FALSE
  /\ IF uploadId
     THEN /\ abortCalls' = abortCalls + 1
          /\ cancelling' = cancelling + 1
          /\ UNCHANGED <<status, activeUploads>>
     ELSE /\ status' = "CANCELLED"
          /\ activeUploads' = FALSE
          /\ UNCHANGED <<abortCalls, cancelling>>
  /\ UNCHANGED <<exists, uploaded, etag, uploadedChunks, progress, retryCount,
                 errorMessage, uploadId, validationResult, speed>>
  /\ UNCHANGED <<activeUploadProcesses, uploadStartTimes, scheduled, lpc, attempts, lstart,
                 cparts, valBad, startPc, listing, mvalPc, mvalBad, s3Vars>>
  /\ UNCHANGED <<nPause, nResume, nValidate, nFaults>>
  /\ UNCHANGED extVars

\* the status cancelUpload leaves once abortUpload has returned: the abort's
\* error is caught and logged, then the store's cancelUpload marks CANCELLED
StatusAfterAbortThrows(abortOk) == IF abortOk THEN "CANCELLED" ELSE status
StatusAfterAbort(abortOk) == "CANCELLED"

CancelAbortReturn ==
  /\ cancelling > 0
  /\ cancelling' = cancelling - 1
  /\ \E a \in AbortAnswers :
       /\ sess' = a[1]
       /\ s3Parts' = IF a[1] = "aborted" THEN {} ELSE s3Parts
       /\ nFaults' = IF a[2] THEN nFaults + 1 ELSE nFaults
       /\ status' = StatusAfterAbort(a[1] = "aborted")
  /\ activeUploads' = FALSE
  /\ IF exists
     THEN UNCHANGED <<exists, uploaded, etag, uploadedChunks, progress, retryCount,
                      errorMessage, uploadId, validationResult, speed>>
     ELSE BlankEntry
  /\ UNCHANGED <<mgrVars, loopVars, startPc, listing, mvalPc, mvalBad, objExists,
                 objParts>>
  /\ UNCHANGED <<abortCalls, nPause, nResume, nCancel, nValidate>>
  /\ UNCHANGED extVars

\* ---- validateUpload ----

ValidateUpload ==
  /\ nValidate < lim.validates
  /\ exists /\ status = "COMPLETED"
  /\ mvalPc = "idle"
  /\ nValidate' = nValidate + 1
  /\ status' = "VALIDATING"
  /\ mvalPc' = "validating"
  /\ mvalBad' = BadChunks(uploaded, etag)
  /\ valSum' = [valSum EXCEPT ![0] = (checksum = "digest")]
  /\ UNCHANGED <<exists, uploaded, etag, uploadedChunks, progress, retryCount,
                 errorMessage, uploadId, validationResult, activeUploads, speed>>
  /\ UNCHANGED <<mgrVars, loopVars, startPc, listing, cancelling, s3Vars>>
  /\ UNCHANGED <<abortCalls, nPause, nResume, nCancel,
                 nFaults>>
  /\ UNCHANGED <<cfgRetryAttempts, refused, nRefused, checksum, bgPc, lim, planVars, progressIntervals>>

\* validateUpload's update after validateFileIntegrity returned
\* Variant: COMPLETED is written whatever the result.
ManualValidationStatusRestored(isValid) == "COMPLETED"
ManualValidationStatus(isValid) == IF isValid THEN "COMPLETED" ELSE "ERROR"

ValidateUploadFinish ==
  /\ mvalPc = "validating"
  /\ mvalPc' = "idle"
  /\ \E o \in ValidationOutcomes(mvalBad, valSum[0]) :
       /\ nFaults' = IF o[2] THEN nFaults + 1 ELSE nFaults
       /\ validationResult' = IF o[1] = "valid" THEN "valid" ELSE o[3]
       /\ status' = ManualValidationStatus(o[1] = "valid")
       /\ errorMessage' = (o[1] # "valid")
  /\ UNCHANGED <<exists, uploaded, etag, uploadedChunks, progress, retryCount,
                 uploadId, activeUploads, speed>>
  /\ UNCHANGED <<mgrVars, loopVars, startPc, listing, cancelling, mvalBad, s3Vars>>
  /\ UNCHANGED <<abortCalls, nPause, nResume, nCancel, nValidate>>
  /\ UNCHANGED extVars

\* ---- progress tracking ----

\* the 1s timer of startProgressTracking: updateUploadProgress reads the
\* record and writes back its progress and status with the new speed
ProgressTick ==
  /\ uploadTimers
  /\ exists /\ uploadStartTimes
  /\ speed' = TRUE
  /\ progress' = progress
  /\ status' = status
  /\ UNCHANGED <<exists, uploaded, etag, uploadedChunks, retryCount, errorMessage,
                 uploadId, validationResult, activeUploads>>
  /\ UNCHANGED <<mgrVars, loopVars, procVars, s3Vars, histVars>>
  /\ UNCHANGED extVars

\* a progressInterval left by a failed request fires (every 100 ms):
\* onProgress(50) -> updateUploadProgress, which does nothing without a
\* record or a start time
ChunkProgressTick ==
  /\ progressIntervals
  /\ exists /\ uploadStartTimes
  /\ speed' = TRUE
  /\ progress' = progress
  /\ status' = status
  /\ UNCHANGED <<exists, uploaded, etag, uploadedChunks, retryCount, errorMessage,
                 uploadId, validationResult, activeUploads>>
  /\ UNCHANGED <<mgrVars, loopVars, procVars, s3Vars, histVars>>
  /\ UNCHANGED extVars

\* ---- the system ----

Next ==
  \/ StartUpload
  \/ StartInitOk
  \/ StartInitFail
  \/ \E l \in Loops, c \in Chunks : ChunkSuccess(l, c)
  \/ \E l \in Loops, c \in Chunks : ChunkFail(l, c)
  \/ \E l \in Loops, c \in Chunks : ChunkAborted(l, c)
  \/ \E l \in Loops, c \in Chunks : BackoffWake(l, c)
  \/ \E l \in Loops : CompleteOk(l)
  \/ \E l \in Loops : CompleteFail(l)
  \/ \E l \in Loops : ValidationFinish(l)
  \/ \E l \in Loops : CorruptedAbortReturn(l)
  \/ PauseUpload
  \/ ResumeUpload
  \/ ScheduledResume
  \/ ResumeListReturn
  \/ CancelUpload
  \/ CancelAbortReturn
  \/ ValidateUpload
  \/ ValidateUploadFinish
  \/ ProgressTick
  \/ ChunkProgressTick
  \/ S3CleanupSession
  \/ \E c \in Chunks : S3LosePart(c)

Spec == Init /\ [][Next]_vars

\* ---- repeated failures: no pause, cancel or manual validation ----

RetryLimits ==
  [pauses |-> 0, resumes |-> MaxRetryResumes, cancels |-> 0, validates |-> 0,
   faults |-> MaxRetryFaults, refusals |-> 0]

InitRetry == InitState(RetryLimits, retryAttempts)

NextRetry ==
  \/ StartUpload
  \/ StartInitOk
  \/ StartInitFail
  \/ \E l \in Loops, c \in Chunks : ChunkSuccess(l, c)
  \/ \E l \in Loops, c \in Chunks : ChunkFail(l, c)
  \/ \E l \in Loops, c \in Chunks : BackoffWake(l, c)
  \/ \E l \in Loops : CompleteOk(l)
  \/ \E l \in Loops : CompleteFail(l)
  \/ \E l \in Loops : ValidationFinish(l)
  \/ \E l \in Loops : CorruptedAbortReturn(l)
  \/ ResumeUpload
  \/ ScheduledResume
  \/ ResumeListReturn

SpecRetry == InitRetry /\ [][NextRetry]_vars

\* ---- failures and resumptions with a file selected again ----

InitResumeFile == InitState(RetryLimits, retryAttempts)

NextResumeFile ==
  \/ StartUpload
  \/ StartInitOk
  \/ StartInitFail
  \/ \E l \in Loops, c \in Chunks : ChunkSuccess(l, c)
  \/ \E l \in Loops, c \in Chunks : ChunkFail(l, c)
  \/ \E l \in Loops, c \in Chunks : BackoffWake(l, c)
  \/ \E l \in Loops : CompleteOk(l)
  \/ \E l \in Loops : CompleteFail(l)
  \/ \E l \in Loops : ValidationFinish(l)
  \/ \E l \in Loops : CorruptedAbortReturn(l)
  \/ ResumeUpload
  \/ ResumeUploadWithFileAccepted
  \/ ScheduledResume
  \/ ResumeListReturn

SpecResumeFile == InitResumeFile /\ [][NextResumeFile]_vars

\* no continuation is pending
Quiescent ==
  /\ startPc # "init"
  /\ \A l \in Loops : lpc[l] = "idle" /\ ~TaskPending(l)
  /\ listing = 0 /\ cancelling = 0 /\ scheduled = 0
  /\ mvalPc = "idle"

TypeOK ==
  /\ status \in UploadStatus \cup {"NONE"}
  /\ uploaded \subseteq Chunks /\ etag \subseteq Chunks
  /\ uploadedChunks \in 0..NumChunks
  /\ scheduled \in Nat /\ listing \in Nat /\ cancelling \in Nat
  /\ validationResult \in {"none", "valid", "thrown", "size", "etags", "checksum", "parts"}
  /\ checksum \in {"none", "digest", "deferred"}
  /\ bgPc \in {"idle", "running"}
  /\ valSum \in [0 .. MaxLoops -> BOOLEAN]
  /\ nRefused \in 0 .. lim.refusals
  /\ fileSize \in Nat /\ totalChunks = Len(chunks) /\ Len(storage) <= 1
  /\ file \in BOOLEAN /\ replans \in Nat
  /\ progressIntervals \in BOOLEAN


\* ---- removeUpload, and calls that are turned down ----

\* removeUpload deletes only a COMPLETED or CANCELLED record
\* Variant: the status test is missing.
RemoveAppliesAnyStatus(ex, st) == ex
RemoveApplies(ex, st) == ex /\ st \in {"COMPLETED", "CANCELLED"}

\* the store's removeUpload: the record and its activeUploads entry go.  The
\* call is explored on records with no continuation pending.
RemoveUpload ==
  /\ RemoveApplies(exists, status)
  /\ Quiescent /\ bgPc = "idle"
  /\ exists' = FALSE
  /\ activeUploads' = FALSE
  /\ UNCHANGED <<status, uploaded, etag, uploadedChunks, progress, retryCount,
                 errorMessage, uploadId, validationResult, speed>>
  /\ UNCHANGED <<mgrVars, loopVars, procVars, s3Vars, histVars, extVars>>

\* removeUpload returns at once: no record, or not COMPLETED / CANCELLED
RemoveUploadIgnored ==
  /\ nRefused < lim.refusals
  /\ ~RemoveApplies(exists, status)
  /\ nRefused' = nRefused + 1
  /\ refused' = <<"remove", status>>
  /\ UNCHANGED <<recVars, mgrVars, loopVars, procVars, s3Vars, histVars>>
  /\ UNCHANGED <<cfgRetryAttempts, checksum, bgPc, valSum, lim, planVars, progressIntervals>>

CallLimits ==
  [pauses |-> MaxPauses, resumes |-> MaxResumes, cancels |-> MaxCancels,
   validates |-> 0, faults |-> 0, refusals |-> MaxRefusals]

InitCalls == InitState(CallLimits, retryAttempts)

NextCalls ==
  \/ StartUpload
  \/ StartInitOk
  \/ \E l \in Loops, c \in Chunks : ChunkSuccess(l, c)
  \/ \E l \in Loops, c \in Chunks : ChunkFail(l, c)
  \/ \E l \in Loops, c \in Chunks : ChunkAborted(l, c)
  \/ \E l \in Loops, c \in Chunks : BackoffWake(l, c)
  \/ \E l \in Loops : CompleteOk(l)
  \/ \E l \in Loops : CompleteFail(l)
  \/ \E l \in Loops : ValidationFinish(l)
  \/ \E l \in Loops : CorruptedAbortReturn(l)
  \/ PauseUpload
  \/ PauseUploadIgnored
  \/ ResumeUpload
  \/ ResumeUploadRejected
  \/ ResumeUploadWithFileRejected
  \/ ScheduledResume
  \/ ResumeListReturn
  \/ CancelUpload
  \/ CancelAbortReturn
  \/ RemoveUpload
  \/ RemoveUploadIgnored

SpecCalls == InitCalls /\ [][NextCalls]_vars

\* ---- the configured retry budget ----

\* values NEXT_PUBLIC_RETRY_ATTEMPTS can give retryAttempts: validateS3Config
\* does not look at the field
RetryBudgets == 0 .. retryAttempts

BudgetLimits ==
  [pauses |-> MaxPauses, resumes |-> MaxResumes, cancels |-> 0,
   validates |-> 0, faults |-> MaxRetryFaults, refusals |-> 0]

InitBudget == \E ra \in RetryBudgets : InitState(BudgetLimits, ra)

NextBudget ==
  \/ StartUpload
  \/ StartInitOk
  \/ StartInitFail
  \/ \E l \in Loops, c \in Chunks : ChunkSuccess(l, c)
  \/ \E l \in Loops, c \in Chunks : ChunkFail(l, c)
  \/ \E l \in Loops, c \in Chunks : ChunkAborted(l, c)
  \/ \E l \in Loops, c \in Chunks : BackoffWake(l, c)
  \/ \E l \in Loops : CompleteOk(l)
  \/ \E l \in Loops : CompleteFail(l)
  \/ \E l \in Loops : ValidationFinish(l)
  \/ \E l \in Loops : CorruptedAbortReturn(l)
  \/ PauseUpload
  \/ ResumeUpload
  \/ ScheduledResume
  \/ ResumeListReturn

SpecBudget == InitBudget /\ [][NextBudget]_vars

\* ---- integrity validation on an object the backend may alter ----

ValidateLimits ==
  [pauses |-> MaxPauses, resumes |-> MaxResumes, cancels |-> 0,
   validates |-> MaxValidates, faults |-> MaxFaults, refusals |-> 0]

InitValidate == InitState(ValidateLimits, retryAttempts)

NextValidate ==
  \/ StartUpload
  \/ StartInitOk
  \/ StartInitFail
  \/ \E l \in Loops, c \in Chunks : ChunkSuccess(l, c)
  \/ \E l \in Loops, c \in Chunks : ChunkFail(l, c)
  \/ \E l \in Loops, c \in Chunks : ChunkAborted(l, c)
  \/ \E l \in Loops, c \in Chunks : BackoffWake(l, c)
  \/ S3CleanupSession
  \/ \E c \in Chunks : S3LosePart(c)
  \/ \E c \in Chunks : S3AlterObject(c)
  \/ \E l \in Loops : CompleteOk(l)
  \/ \E l \in Loops : CompleteFail(l)
  \/ \E l \in Loops : ValidationFinish(l)
  \/ \E l \in Loops : CorruptedAbortReturn(l)
  \/ PauseUpload
  \/ ResumeUpload
  \/ ScheduledResume
  \/ ResumeListReturn
  \/ ValidateUpload
  \/ ValidateUploadFinish

SpecValidate == InitValidate /\ [][NextValidate]_vars

\* ---- the checksum computed in the background ----

\* calculateChecksumInBackground resolved: updateUpload(uploadId, {checksum})
ChecksumBackgroundOk ==
  /\ bgPc = "running"
  /\ bgPc' = "idle"
  /\ checksum' = "digest"
  /\ IF exists
     THEN UNCHANGED recVars
     ELSE BlankEntry /\ status' = "NONE" /\ UNCHANGED activeUploads
  /\ UNCHANGED <<mgrVars, loopVars, procVars, s3Vars, histVars>>
  /\ UNCHANGED <<cfgRetryAttempts, refused, nRefused, valSum, lim, planVars, progressIntervals>>

\* calculateChecksumInBackground rejected: the catch block logs
ChecksumBackgroundFail ==
  /\ bgPc = "running"
  /\ bgPc' = "idle"
  /\ status' = StatusAfterChecksumFailure(status)
  /\ UNCHANGED <<exists, uploaded, etag, uploadedChunks, progress, retryCount,
                 errorMessage, uploadId, validationResult, activeUploads, speed>>
  /\ UNCHANGED <<mgrVars, loopVars, procVars, s3Vars, histVars>>
  /\ UNCHANGED <<cfgRetryAttempts, refused, nRefused, checksum, valSum, lim, planVars, progressIntervals>>

ChecksumLimits ==
  [pauses |-> MaxPauses, resumes |-> MaxResumes, cancels |-> 0,
   validates |-> MaxValidates, faults |-> 0, refusals |-> 0]

InitChecksum == InitState(ChecksumLimits, retryAttempts)

NextChecksum ==
  \/ StartUpload
  \/ StartUploadChecksumFailed
  \/ StartInitOk
  \/ ChecksumBackgroundOk
  \/ ChecksumBackgroundFail
  \/ \E l \in Loops, c \in Chunks : ChunkSuccess(l, c)
  \/ \E l \in Loops, c \in Chunks : ChunkFail(l, c)
  \/ \E l \in Loops, c \in Chunks : ChunkAborted(l, c)
  \/ \E l \in Loops, c \in Chunks : BackoffWake(l, c)
  \/ \E l \in Loops : CompleteOk(l)
  \/ \E l \in Loops : CompleteFail(l)
  \/ \E l \in Loops : ValidationFinish(l)
  \/ \E l \in Loops : CorruptedAbortReturn(l)
  \/ PauseUpload
  \/ ResumeUpload
  \/ ScheduledResume
  \/ ResumeListReturn
  \/ ValidateUpload
  \/ ValidateUploadFinish
  \/ ProgressTick

SpecChecksum == InitChecksum /\ [][NextChecksum]_vars

\* ---- claims ----

\* C1: CANCELLED is terminal: once the upload's status is CANCELLED no later
\* step changes it, whatever continuation was pending when cancelUpload ran.
CE_C1_CancelledTerminal ==
  [][(exists /\ status = "CANCELLED") => status' = "CANCELLED"]_vars

\* C2: when a cancelUpload call on an existing upload finishes (at once when
\* there is no session to abort, else when abortUpload has returned, also with
\* a failed abort), the status is CANCELLED.
CancelFinishes ==
  \/ cancelling' < cancelling
  \/ nCancel' > nCancel /\ cancelling' = cancelling
Thm_C2_CancelSetsCancelled ==
  [][CancelFinishes => status' = "CANCELLED"]_vars
\* a cancel whose only abort request failed (the session is still open) has
\* finished with the record CANCELLED
W_C2_CancelledAfterFailedAbort ==
  /\ status = "CANCELLED" /\ nCancel = 1 /\ cancelling = 0
  /\ abortCalls = 1 /\ uploadId /\ sess = "open"

\* C3: the backend abort request is issued at most once for the upload.
CE_C3_AbortAtMostOnce == abortCalls <= 1

\* C4: every change of status follows an allowed edge.
AllowedEdges ==
  {<<"PENDING", "UPLOADING">>, <<"UPLOADING", "VALIDATING">>,
   <<"VALIDATING", "COMPLETED">>, <<"UPLOADING", "PAUSED">>,
   <<"PAUSED", "RESUMING">>, <<"ERROR", "RESUMING">>, <<"RESUMING", "UPLOADING">>,
   <<"UPLOADING", "ERROR">>, <<"VALIDATING", "ERROR">>,
   <<"COMPLETED", "VALIDATING">>}
  \cup {<<s, "CANCELLED">> : s \in UploadStatus \ {"COMPLETED", "CANCELLED"}}
CE_C4_AllowedEdges ==
  [][(exists /\ status' # status) => <<status, status'>> \in AllowedEdges]_vars

\* C5: uploadedChunks equals the number of chunks flagged uploaded, in every
\* reachable state.
Thm_C5_CountMatchesFlags ==
  exists => uploadedChunks = Cardinality(uploaded)
\* chunks were acknowledged, all were flagged by completions, and validation
\* then invalidated some of them
W_C5_AfterInvalidation ==
  /\ status = "ERROR" /\ objExists /\ scheduled > 0
  /\ uploadedChunks < NumChunks

\* C6: progress equals 100 * uploadedChunks / totalChunks in every reachable
\* state.
Thm_C6_ProgressMatchesCount ==
  exists => progress = (100 * uploadedChunks) \div NumChunks
W_C6_Validating ==
  status = "VALIDATING" /\ progress = 100 /\ speed

\* C7: at most maxConcurrentUploads chunk requests of the upload are in flight.
InFlight == {<<l, c>> \in Loops \X Chunks : task[l][c] = "inflight"}
CE_C7_BoundedConcurrency == Cardinality(InFlight) <= maxConcurrentUploads

\* C8: when resumeUpload has obtained the backend's part list (the session
\* answers and the request did not fail), no chunk absent from that list is
\* still flagged uploaded after the reconciliation.
CE_C8_BackendListPrevails ==
  [][(listing' < listing /\ exists /\ uploadId /\ sess \in {"open", "completed"}
        /\ nFaults' = nFaults)
       => uploaded' \subseteq s3Parts]_vars

\* C9: a chunk loop sends only chunks that were not flagged uploaded when it
\* started.
Thm_C9_ResumedLoopSkipsUploaded ==
  \A l \in Loops : \A c \in Chunks :
    task[l][c] \in {"inflight", "aborted", "backoff"} => c \notin lstart[l]
\* after a pause and a resume, a loop that started with a chunk already
\* flagged is sending another chunk
W_C9_ResumedLoopSending ==
  /\ nPause = 1 /\ nResume = 1
  /\ \E l \in Loops : lstart[l] # {} /\ \E c \in Chunks : task[l][c] = "inflight"

\* C10: with no backend fault, no cancel and no manual validation, an upload
\* that is not waiting in PAUSED has, once every continuation is over, status
\* COMPLETED with all chunks counted, however often it was paused and resumed.
CE_C10_PauseResumeCompletes ==
  (/\ startPc = "done" /\ Quiescent
   /\ nFaults = 0 /\ nCancel = 0 /\ nValidate = 0 /\ sess # "expired"
   /\ status # "PAUSED")
  => (status = "COMPLETED" /\ uploadedChunks = NumChunks)
\* the same without any pause: the uninterrupted run does complete
UninterruptedCompletes ==
  (/\ startPc = "done" /\ Quiescent
   /\ nFaults = 0 /\ nCancel = 0 /\ nValidate = 0 /\ sess # "expired"
   /\ nPause = 0)
  => (status = "COMPLETED" /\ uploadedChunks = NumChunks)

\* C11: the record's retryCount never exceeds the maximum of 3 retries, also
\* when the upload has ended in ERROR.
CE_C11_RetryCountBounded == exists => retryCount <= MaxRecordRetries

\* C12: every failed chunk-upload attempt (a part request that fails with a
\* backend fault) adds exactly 1 to the record's retryCount.
FailedAttempt ==
  \E l \in Loops, c \in Chunks :
     task[l][c] = "inflight" /\ task'[l][c] # "inflight" /\ nFaults' = nFaults + 1
CE_C12_AttemptCountsRetry ==
  [][(exists /\ FailedAttempt) => retryCount' = retryCount + 1]_vars
\* a chunk failed twice and then went through, the others at once: the upload
\* is COMPLETED and the record counts no retry
W_C12_CompletedAfterTwoFailures ==
  /\ status = "COMPLETED" /\ nFaults = 2 /\ retryCount = 0 /\ scheduled = 0
  /\ nResume = 0 /\ uploadedChunks = NumChunks

\* C13: a pauseUpload call that finds no record, or a record that is not
\* UPLOADING, changes nothing: record, timers, active marker, chunk requests.
PauseCallStep ==
  \/ nPause' > nPause
  \/ nRefused' > nRefused /\ refused'[1] = "pause"
Thm_C13_PauseNoOp ==
  [][(PauseCallStep /\ ~(exists /\ status = "UPLOADING"))
       => UNCHANGED <<recVars, mgrVars, loopVars, procVars, s3Vars>>]_vars
\* a second pauseUpload found the upload PAUSED by the first
W_C13_PausedTwice ==
  nPause = 1 /\ refused = <<"pause", "PAUSED">> /\ status = "PAUSED"

\* C14: a resumeUpload call that finds no record, or a status other than
\* PAUSED and ERROR, throws, starts no chunk loop and leaves the status.
ResumeCallStep ==
  \/ nResume' > nResume
  \/ nRefused' > nRefused /\ refused'[1] = "resume"
Thm_C14_ResumeRejected ==
  [][(ResumeCallStep /\ ~(exists /\ status \in {"PAUSED", "ERROR"}))
       => /\ refused' = <<"resume", status>>
          /\ UNCHANGED <<status, mgrVars, loopVars, procVars, s3Vars>>]_vars
\* resumeUpload was turned down while the chunk loop was running
W_C14_RejectedWhileUploading ==
  /\ refused = <<"resume", "UPLOADING">> /\ status = "UPLOADING"
  /\ \E l \in Loops : lpc[l] = "chunks"

\* C19: a removeUpload call deletes the record when it is COMPLETED or
\* CANCELLED and otherwise leaves the registry and the active list as they are.
RemoveCallStep ==
  \/ exists /\ ~exists'
  \/ nRefused' > nRefused /\ refused'[1] = "remove"
Thm_C19_RemoveOnlyTerminal ==
  [][RemoveCallStep =>
       IF exists /\ status \in {"COMPLETED", "CANCELLED"}
       THEN ~exists' /\ ~activeUploads'
       ELSE UNCHANGED recVars]_vars
\* a removeUpload on an ERROR record was ignored, and the record is still there
W_C19_IgnoredOnError ==
  refused = <<"remove", "ERROR">> /\ exists /\ status = "ERROR" /\ activeUploads

\* C15: the chunk loop calls completeMultipartUpload, and later writes
\* VALIDATING, only when every chunk of the record is flagged uploaded.
CompleteCalled == \E l \in Loops : lpc[l] # "completing" /\ lpc'[l] = "completing"
LoopValidating == \E l \in Loops : lpc[l] = "completing" /\ lpc'[l] = "validating"
CE_C15_CompleteOnlyWhenAllUploaded ==
  [][(CompleteCalled \/ LoopValidating) => uploaded' = Chunks]_vars

\* C16: when the object does not have the size of the file and getObjectInfo
\* answers, validation ends at its first check: the result is invalid with
\* the size error and names no chunk (none is cleared, no retry is set), and
\* the run started by validateUpload leaves the record in ERROR.
SizeMismatch == objExists /\ objParts # Chunks
ManualFinishStep == mvalPc = "validating" /\ mvalPc' = "idle"
LoopFinishStep == \E l \in Loops : lpc[l] = "validating" /\ lpc'[l] # "validating"
Thm_C16_SizeMismatchInvalid ==
  [][((ManualFinishStep \/ LoopFinishStep) /\ SizeMismatch /\ nFaults' = nFaults)
       => /\ validationResult' = "size"
          /\ status' = "ERROR"
          /\ errorMessage'
          /\ UNCHANGED <<uploaded, etag, uploadedChunks, scheduled>>]_vars
\* validateUpload ran on a COMPLETED upload whose object had lost a part
W_C16_ManualSizeMismatch ==
  /\ nValidate = 1 /\ mvalPc = "idle" /\ nFaults = 1
  /\ validationResult = "size" /\ status = "ERROR"
  /\ objExists /\ objParts # Chunks /\ uploaded = Chunks

\* C17: when validation inside completeUpload reports corrupted chunks (the
\* object has the size of the file, some chunk flagged uploaded has no etag),
\* exactly those chunks lose flag and etag, uploadedChunks drops by their
\* number, the status becomes ERROR and a resume is scheduled; that resume,
\* finding the record still in ERROR, lists the parts and starts the chunk loop.
CorruptedReport(l) ==
  /\ lpc[l] = "validating" /\ lpc'[l] # "validating"
  /\ exists /\ objExists /\ objParts = Chunks /\ valBad[l] # {}
  /\ nFaults' = nFaults
\* the record is in ERROR and only a corrupted-chunk report can have put it
\* there: no handleUploadError has run, no validation result was stored
AfterCorruptedReport ==
  /\ exists /\ status = "ERROR" /\ objExists
  /\ validationResult = "none" /\ retryCount = 0
LoopStarted == \E l \in Loops : lpc[l] = "idle" /\ lpc'[l] \in {"chunks", "completing"}
Thm_C17_CorruptedChunksCleared ==
  [][/\ \A l \in Loops : CorruptedReport(l) =>
          /\ uploaded' = uploaded \ valBad[l]
          /\ etag' = etag \ valBad[l]
          /\ uploadedChunks' = uploadedChunks - Cardinality(valBad[l])
          /\ status' = "ERROR"
          /\ scheduled' = scheduled + 1
     /\ (scheduled' < scheduled /\ AfterCorruptedReport)
          => listing' = listing + 1
     /\ (listing' < listing /\ AfterCorruptedReport)
          => status' = "UPLOADING" /\ LoopStarted]_vars
\* after the report the scheduled resume has put the cleared chunk back in flight
W_C17_ClearedChunkResent ==
  /\ status = "UPLOADING" /\ objExists /\ validationResult = "none"
  /\ retryCount = 0 /\ scheduled = 0 /\ nResume = 1
  /\ \E l \in Loops, c \in Chunks :
       lpc[l] = "chunks" /\ task[l][c] = "inflight" /\ c \notin uploaded

\* C18: validateUpload never leaves the record in VALIDATING when it ends, and
\* when a backend call of the validation fails the status is COMPLETED again.
CE_C18_ManualValidationRestores ==
  [][ManualFinishStep =>
       /\ status' # "VALIDATING"
       /\ (validationResult' = "thrown" => status' = "COMPLETED")]_vars

\* C20: a checksum computation that fails, inline in startUpload or in the
\* background, does not put the record in ERROR and does not keep an upload
\* that nothing else disturbs from ending COMPLETED; the end of the background
\* task changes no modelled field of the record but checksum (updatedAt, which
\* every store mutation refreshes, is not a field of the model).
InlineChecksumFailure == startPc = "idle" /\ startPc' = "init" /\ checksum' = "deferred"
BackgroundEnds == bgPc = "running" /\ bgPc' = "idle"
MiB == 1024
GiB == 1024 * MiB
MIN_CHUNK_SIZE == 5 * MiB
MAX_CHUNK_SIZE == 100 * MiB
minSize == 5 * MiB      \* validateFile
maxSize == 200 * GiB    \* validateFile

\* the sizes explored: every whole MiB up to MaxSmallFile with one KiB more
\* and one less, and the KiB around each limit of validateFile and each tier
MaxSmallFile == 40
SizeLimits == {minSize, 50 * MiB, 500 * MiB, 5 * GiB, 50 * GiB, maxSize}
SmallFiles == {k * MiB + r : k \in 5 .. MaxSmallFile, r \in {0 - 1, 0, 1}}
FileSizes == SmallFiles \cup {b + d : b \in SizeLimits, d \in {0 - 1, 0, 1}}

validateFile(size) == ~(size < minSize) /\ ~(size > maxSize)

\* Variant: the limits of the tiers are exclusive.
calculateChunkSizeExclusive(size) ==
  IF size < 50 * MiB THEN MIN_CHUNK_SIZE
  ELSE IF size < 500 * MiB THEN 10 * MiB
  ELSE IF size < 5 * GiB THEN 25 * MiB
  ELSE IF size < 50 * GiB THEN 50 * MiB
  ELSE MAX_CHUNK_SIZE
calculateChunkSize(size) ==
  IF size <= 50 * MiB THEN MIN_CHUNK_SIZE
  ELSE IF size <= 500 * MiB THEN 10 * MiB
  ELSE IF size <= 5 * GiB THEN 25 * MiB
  ELSE IF size <= 50 * GiB THEN 50 * MiB
  ELSE MAX_CHUNK_SIZE

\* Math.ceil(a / b) and Math.min for the integers at hand
Ceil(a, b) == (a + b - 1) \div b
Min(a, b) == IF a < b THEN a ELSE b

\* one UploadChunk; etag and chunkData say whether the field is set
Descriptor(n, startByte, endByte) ==
  [chunkNumber |-> n, chunkSize |-> endByte - startByte,
   startByte |-> startByte, endByte |-> endByte,
   uploaded |-> FALSE, etag |-> FALSE, chunkData |-> TRUE]

\* Variant: every chunk ends one chunk size after its start.
createFileChunksUnclamped(size) ==
  LET optimalChunkSize == calculateChunkSize(size)
      total == Ceil(size, optimalChunkSize)
  IN [i \in 1 .. total |->
        Descriptor(i, (i - 1) * optimalChunkSize, i * optimalChunkSize)]
\* createFileChunks(file) for a file of the given size; the loop index i of
\* the code is chunkNumber - 1
createFileChunks(size) ==
  LET optimalChunkSize == calculateChunkSize(size)
      total == Ceil(size, optimalChunkSize)
  IN [i \in 1 .. total |->
        LET startByte == (i - 1) * optimalChunkSize
        IN Descriptor(i, startByte, Min(startByte + optimalChunkSize, size))]

\* The actions below follow FileUpload.chunks as the list the code holds, for
\* one record from startUpload on.  resumeUploadWithFile replaces the list
\* before resumeUpload looks at the status, so the list does not depend on
\* the status; the status is followed by the other specifications.

MaxMarkedChunk == 3   \* chunk numbers whose flags markChunkUploaded sets
MaxPlanRefusals == 1  \* startUpload / resumeUploadWithFile calls that throw
MaxReplans == 2       \* resumeUploadWithFile calls that are accepted

PlanLimits ==
  [pauses |-> 0, resumes |-> 0, cancels |-> 0, validates |-> 0, faults |-> 0,
   refusals |-> MaxPlanRefusals]

\* the store's partialize: the record as it is written to 'upload-storage'
\* (JSON leaves out a field whose value is undefined)
partialize(fs, ch, total) ==
  [fileSize |-> fs, file |-> FALSE, totalChunks |-> total,
   chunks |-> [i \in DOMAIN ch |->
                 [chunkNumber |-> ch[i].chunkNumber, chunkSize |-> ch[i].chunkSize,
                  startByte |-> ch[i].startByte, endByte |-> ch[i].endByte,
                  etag |-> ch[i].etag, uploaded |-> ch[i].uploaded,
                  chunkData |-> FALSE]]]

\* startUpload(file) up to addUpload, for a file validateFile accepts
StartUploadFile(size) ==
  /\ fileSize = 0 /\ validateFile(size)
  /\ fileSize' = size /\ file' = TRUE
  /\ chunks' = createFileChunks(size)
  /\ totalChunks' = Len(chunks')
  /\ planned' = chunks'
  /\ storage' = <<partialize(fileSize', chunks', totalChunks')>>
  /\ UNCHANGED replans
  /\ UNCHANGED <<recVars, mgrVars, loopVars, procVars, s3Vars, histVars>>
  /\ UNCHANGED <<cfgRetryAttempts, refused, nRefused, checksum, bgPc, valSum, lim, progressIntervals>>

\* startUpload(file) throws the error of validateFile: nothing is created
StartUploadFileInvalid(size) ==
  /\ fileSize = 0 /\ ~validateFile(size)
  /\ nRefused < lim.refusals
  /\ nRefused' = nRefused + 1
  /\ refused' = <<"start", status>>
  /\ UNCHANGED <<recVars, mgrVars, loopVars, procVars, s3Vars, histVars>>
  /\ UNCHANGED <<cfgRetryAttempts, checksum, bgPc, valSum, lim, planVars, progressIntervals>>

\* the store's markChunkUploaded(id, n, etag?) on the chunk list
MarkChunks(ch, n, tg) ==
  [i \in DOMAIN ch |->
     IF ch[i].chunkNumber = n THEN [ch[i] EXCEPT !.uploaded = TRUE, !.etag = tg]
     ELSE ch[i]]

\* a chunk is acknowledged (with its etag) or found in the parts list of the
\* session (without one)
MarkChunkUploaded(n, tg) ==
  /\ fileSize # 0 /\ n \in 1 .. Min(Len(chunks), MaxMarkedChunk)
  /\ ~chunks[n].uploaded
  /\ chunks' = MarkChunks(chunks, n, tg)
  /\ storage' = <<partialize(fileSize, chunks', totalChunks)>>
  /\ UNCHANGED <<fileSize, file, totalChunks, planned, replans>>
  /\ UNCHANGED <<recVars, mgrVars, loopVars, procVars, s3Vars, histVars>>
  /\ UNCHANGED <<cfgRetryAttempts, refused, nRefused, checksum, bgPc, valSum, lim, progressIntervals>>

\* the page is loaded again: persist.rehydrate() puts the stored record in
\* the registry
Rehydrate ==
  /\ storage # <<>>
  /\ fileSize' = storage[1].fileSize /\ file' = storage[1].file
  /\ chunks' = storage[1].chunks /\ totalChunks' = storage[1].totalChunks
  /\ UNCHANGED <<storage, planned, replans>>
  /\ UNCHANGED <<recVars, mgrVars, loopVars, procVars, s3Vars, histVars>>
  /\ UNCHANGED <<cfgRetryAttempts, refused, nRefused, checksum, bgPc, valSum, lim, progressIntervals>>

\* the chunk numbers flagged uploaded
UploadedNumbers(ch) == {ch[i].chunkNumber : i \in {j \in DOMAIN ch : ch[j].uploaded}}

\* resumeUploadWithFile: fresh chunks for the file, a chunk flagged when its
\* number is among the flagged ones of the record, with the etag of the first
\* chunk of that number if it has one
\* Variant: the fresh chunks are stored as createFileChunks returned them.
FreshChunksUnflagged(size, ch) == createFileChunks(size)
FreshChunks(size, ch) ==
  LET fresh == createFileChunks(size)
      original(n) == ch[CHOOSE i \in DOMAIN ch :
                          /\ ch[i].chunkNumber = n
                          /\ \A j \in 1 .. i - 1 : ch[j].chunkNumber # n]
  IN [i \in DOMAIN fresh |->
        IF fresh[i].chunkNumber \in UploadedNumbers(ch)
        THEN [fresh[i] EXCEPT !.uploaded = TRUE,
                              !.etag = original(fresh[i].chunkNumber).etag]
        ELSE fresh[i]]

\* resumeUpload's re-planning, reached with the file the record holds: fresh
\* chunks take flag and etag of the chunk at the same position when the first
\* chunk of the record has no data; a record without chunks gets fresh ones
ResumeUploadChunks(size, ch) ==
  IF Len(ch) > 0 /\ ~ch[1].chunkData
  THEN LET fresh == createFileChunks(size)
       IN [i \in DOMAIN fresh |->
             IF i \in DOMAIN ch /\ ch[i].uploaded
             THEN [fresh[i] EXCEPT !.uploaded = TRUE, !.etag = ch[i].etag]
             ELSE fresh[i]]
  ELSE IF Len(ch) = 0 THEN createFileChunks(size)
  ELSE ch

\* resumeUploadWithFile goes on when the file selected has the recorded size
\* (the name is taken to be the recorded one)
\* Variant: the size is not compared.
FileMatchesAny(size, recorded) == TRUE
FileMatches(size, recorded) == size = recorded

\* resumeUploadWithFile(id, file) with a file of the recorded name and size,
\* up to the point where the resumeUpload it calls tests the status
ResumeUploadWithFile(size) ==
  /\ fileSize # 0 /\ FileMatches(size, fileSize)
  /\ replans < MaxReplans
  /\ replans' = replans + 1
  /\ file' = TRUE
  /\ chunks' = ResumeUploadChunks(size, FreshChunks(size, chunks))
  /\ storage' = <<partialize(fileSize, chunks', totalChunks)>>
  /\ UNCHANGED <<fileSize, totalChunks, planned>>
  /\ UNCHANGED <<recVars, mgrVars, loopVars, procVars, s3Vars, histVars>>
  /\ UNCHANGED <<cfgRetryAttempts, refused, nRefused, checksum, bgPc, valSum, lim, progressIntervals>>

\* resumeUploadWithFile(id, file) with a file of another size throws (the
\* other sizes tried are the limits of validateFile and of the tiers)
ResumeUploadWithFileMismatch(size) ==
  /\ fileSize # 0 /\ ~FileMatches(size, fileSize)
  /\ nRefused < lim.refusals
  /\ nRefused' = nRefused + 1
  /\ refused' = <<"resumeWithFile", status>>
  /\ UNCHANGED <<recVars, mgrVars, loopVars, procVars, s3Vars, histVars>>
  /\ UNCHANGED <<cfgRetryAttempts, checksum, bgPc, valSum, lim, planVars, progressIntervals>>

\* the planner applied to every size explored
InitPlan == InitState(PlanLimits, retryAttempts)

NextPlan ==
  \/ \E size \in FileSizes : StartUploadFile(size)
  \/ \E size \in FileSizes : StartUploadFileInvalid(size)

SpecPlan == InitPlan /\ [][NextPlan]_vars

\* a record of a small file through acknowledgements, reloads of the page and
\* resumeUploadWithFile
InitPersist == InitState(PlanLimits, retryAttempts)

NextPersist ==
  \/ \E size \in SmallFiles : StartUploadFile(size)
  \/ \E n \in 1 .. MaxMarkedChunk, tg \in BOOLEAN : MarkChunkUploaded(n, tg)
  \/ Rehydrate
  \/ \E size \in SmallFiles : ResumeUploadWithFile(size)
  \/ \E size \in SizeLimits : ResumeUploadWithFileMismatch(size)

SpecPersist == InitPersist /\ [][NextPersist]_vars

\* C21: the progress of a record decreases in one step only: the step in
\* which handleCorruptedFile clears the chunks a validation reported, which
\* also puts the record in ERROR; so it never decreases between two states
\* that are both UPLOADING.
InvalidationStep ==
  /\ \E l \in Loops : lpc[l] = "validating" /\ lpc'[l] = "idle" /\ valBad[l] # {}
  /\ uploaded' # uploaded /\ uploaded' \subseteq uploaded
Thm_C21_ProgressMonotone ==
  [][/\ (status = "UPLOADING" /\ status' = "UPLOADING") => progress' >= progress
     /\ (progress' < progress) => (InvalidationStep /\ status' = "ERROR")]_vars
\* an invalidation has taken the progress of a validated upload below 100
W_C21_ProgressAfterInvalidation ==
  /\ status = "ERROR" /\ objExists /\ validationResult = "none" /\ retryCount = 0
  /\ progress < 100 /\ uploaded # Chunks
\* C22: the chunks createFileChunks returns for a valid file size are at
\* least one and partition [0, fileSize): the first starts at 0, each starts
\* where the one before ends, the last ends at fileSize, the numbers are
\* 1..n in order, every size is endByte - startByte and positive, and the
\* sizes add up to fileSize.
RECURSIVE SumSizes(_, _, _)
SumSizes(ch, lo, hi) ==
  IF lo > hi THEN 0
  ELSE IF lo = hi THEN ch[lo].chunkSize
  ELSE LET mid == (lo + hi) \div 2
       IN SumSizes(ch, lo, mid) + SumSizes(ch, mid + 1, hi)
IsPartition(ch, size) ==
  /\ Len(ch) >= 1
  /\ ch[1].startByte = 0
  /\ ch[Len(ch)].endByte = size
  /\ \A i \in 1 .. Len(ch) :
       /\ ch[i].chunkNumber = i
       /\ ch[i].chunkSize = ch[i].endByte - ch[i].startByte
       /\ ch[i].chunkSize > 0
  /\ \A i \in 2 .. Len(ch) : ch[i].startByte = ch[i - 1].endByte
  /\ SumSizes(ch, 1, Len(ch)) = size
Thm_C22_ChunksPartitionFile ==
  fileSize # 0 => (validateFile(fileSize) /\ IsPartition(planned, fileSize))
\* a 12 MB file is planned as chunks of 5 MB, 5 MB and 2 MB
W_C22_TwelveMegabytes ==
  /\ fileSize = 12 * MiB /\ Len(planned) = 3
  /\ planned[1].chunkSize = 5 * MiB /\ planned[2].chunkSize = 5 * MiB
  /\ planned[3].chunkSize = 2 * MiB /\ planned[3].endByte = fileSize

\* C23: the chunk size follows the tiers (up to 50 MB: 5 MB, up to 500 MB:
\* 10 MB, up to 5 GB: 25 MB, up to 50 GB: 50 MB, above: 100 MB, each limit
\* belonging to the lower tier); every chunk but the last has exactly that
\* size, so at least 5 MB, and the last has at most that size.
TierChunkSize(size) ==
  CASE size <= 50 * MiB -> 5 * MiB
    [] size > 50 * MiB /\ size <= 500 * MiB -> 10 * MiB
    [] size > 500 * MiB /\ size <= 5 * GiB -> 25 * MiB
    [] size > 5 * GiB /\ size <= 50 * GiB -> 50 * MiB
    [] size > 50 * GiB -> 100 * MiB
Thm_C23_ChunkSizeTiers ==
  fileSize # 0 =>
    \A i \in 1 .. Len(planned) :
      /\ i < Len(planned) =>
           /\ planned[i].chunkSize = TierChunkSize(fileSize)
           /\ planned[i].chunkSize >= 5 * MiB
      /\ planned[i].chunkSize <= TierChunkSize(fileSize)
\* a file of exactly 500 MB still belongs to the 10 MB tier: fifty chunks of
\* 10 MB
W_C23_TierLimitInclusive ==
  /\ fileSize = 500 * MiB /\ Len(planned) = 50
  /\ \A i \in 1 .. 50 : planned[i].chunkSize = 10 * MiB
\* a file one KiB above 50 GB has a last chunk smaller than 5 MB
W_C23_SmallFinalChunk ==
  /\ fileSize = 50 * GiB + 1 /\ Len(planned) = 513
  /\ planned[513].chunkSize = 1 /\ planned[512].chunkSize = 100 * MiB
\* C24: in every reachable state a record whose status is ERROR has an
\* errorMessage, whichever step wrote the status.
CE_C24_ErrorHasMessage == (exists /\ status = "ERROR") => errorMessage
\* the same for the step that writes ERROR: every step into ERROR sets the
\* message
ErrorWritten == status # "ERROR" /\ status' = "ERROR"
Thm_C24_ErrorWrittenWithMessage == [][ErrorWritten => errorMessage']_vars
\* resumeUploadWithFile cleared the message of an ERROR record and waits for
\* the parts list of the session
W_C24_ErrorWithoutMessage ==
  /\ exists /\ status = "ERROR" /\ ~errorMessage /\ listing > 0 /\ uploadId
\* C25: within one run of the chunk loop a chunk is attempted at most
\* retryAttempts times; a step in which the chunk loop fails and takes the
\* record from UPLOADING to ERROR is the failure of an attempt that used up
\* the budget of its chunk while the upload was active; and the step of a
\* successful attempt leaves status and retryCount as they are.
Tried(l, c) ==
  attempts[l][c] + (IF task[l][c] \in {"inflight", "aborted"} THEN 1 ELSE 0)
LoopFailsIntoError(l) ==
  /\ lpc[l] = "chunks" /\ lpc'[l] = "idle"
  /\ status = "UPLOADING" /\ status' = "ERROR"
LastAttemptFailed(l) ==
  \E c \in Chunks :
    /\ task[l][c] \in {"inflight", "aborted"}
    /\ task'[l][c] \notin {"inflight", "aborted", "backoff", "done"}
    /\ Tried(l, c) = cfgRetryAttempts
Thm_C25_ChunkRetryBudget ==
  /\ [](\A l \in Loops, c \in Chunks : Tried(l, c) <= cfgRetryAttempts)
  /\ [][\A l \in Loops :
          /\ LoopFailsIntoError(l) =>
               (LastAttemptFailed(l) /\ activeUploadProcesses /\ errorMessage')
          /\ \A c \in Chunks : ChunkSuccess(l, c) =>
               (status' = status /\ retryCount' = retryCount)]_vars
\* with a budget of 2 a chunk failed twice and the upload is in ERROR, the
\* other chunk acknowledged
W_C25_BudgetUsedUp ==
  /\ cfgRetryAttempts = 2 /\ status = "ERROR" /\ errorMessage /\ retryCount = 1
  /\ uploadedChunks = 1 /\ ~objExists
  /\ \A l \in Loops : lpc[l] = "idle"
\* C26: a chunk task that stops because of pauseUpload or cancelUpload (its
\* request was aborted, or it finds the record PAUSED or CANCELLED when it
\* wakes from its backoff) is not an error: the step writes neither ERROR nor
\* an errorMessage, leaves retryCount and schedules no resume.
StoppedByCaller(l, c) ==
  \/ task[l][c] = "aborted"
  \/ task[l][c] = "backoff" /\ status \in {"PAUSED", "CANCELLED"}
CallerStopStep ==
  \E l \in Loops, c \in Chunks : StoppedByCaller(l, c) /\ task'[l][c] # task[l][c]
CE_C26_CallerStopIsNoError ==
  [][CallerStopStep =>
       /\ (status' = "ERROR" => status = "ERROR")
       /\ UNCHANGED <<retryCount, errorMessage, scheduled>>]_vars
\* cancelUpload awaits the backend abort and the record is in ERROR with one
\* handled error, the only transport fault having hit an earlier attempt
W_C26_ErrorDuringCancel ==
  /\ status = "ERROR" /\ cancelling > 0 /\ errorMessage /\ retryCount = 1
  /\ nCancel = 1 /\ ~objExists /\ sess = "open"
\* C27: a chunk request that fails with a non-retryable error (here: the
\* session is gone, NoSuchUpload) while the upload is active is not tried
\* again: the task does not go to its backoff, the record is in ERROR after
\* the step and no resume is scheduled.
MissingSessionFailure(l, c) ==
  /\ task[l][c] = "inflight" /\ task'[l][c] # "inflight"
  /\ ~(uploadId /\ sess = "open")
  /\ exists /\ IsActive(status, activeUploadProcesses)
CE_C27_NonRetryableNotRetried ==
  [][\A l \in Loops, c \in Chunks :
       MissingSessionFailure(l, c) =>
         /\ task'[l][c] # "backoff"
         /\ status' = "ERROR"
         /\ scheduled' = scheduled]_vars
\* a record without a backend session: the request of a chunk failed twice and
\* is sent a third time
W_C27_RetriedWithoutSession ==
  /\ ~uploadId /\ sess = "none" /\ status = "UPLOADING"
  /\ \E l \in Loops, c \in Chunks : attempts[l][c] = 2 /\ task[l][c] = "inflight"
\* C28: when the validation that follows the completion call is invalid and
\* names no chunk, the step writes ERROR with a message, records the
\* validation result, issues the abort request for the session when the
\* record has a session id, and leaves no automatic resume scheduled: no
\* timer is pending that would take the record out of ERROR by itself.
TerminalInvalidStep ==
  /\ \E l \in Loops : lpc[l] = "validating" /\ lpc'[l] \in {"aborting", "idle"}
  /\ validationResult' \in {"thrown", "size", "checksum", "parts"}
  /\ uploaded' = uploaded
CE_C28_TerminalInvalidStays ==
  [][TerminalInvalidStep =>
       /\ status' = "ERROR" /\ errorMessage'
       /\ uploadId => abortCalls' = abortCalls + 1
       /\ scheduled' = 0]_vars
\* the terminal ERROR of an invalid validation was left by a resume nobody
\* called: the timer of an earlier handled error fired
W_C28_ResumedByStaleTimer ==
  /\ validationResult = "parts" /\ status = "ERROR" /\ listing = 1
  /\ nResume = 1 /\ scheduled = 0 /\ retryCount = 1 /\ nFaults = 1
  /\ \A l \in Loops : lpc[l] = "idle"
\* C29: the chunk plan of a record never changes in count or boundaries:
\* whatever was acknowledged, reloaded or resumed with a file selected again,
\* the record has as many chunks as startUpload planned, with the same
\* chunkNumber, startByte, endByte and chunkSize at each position, and
\* totalChunks is that number; only uploaded and etag (and the presence of
\* the bytes) differ.
SamePlan(ch, plan) ==
  /\ Len(ch) = Len(plan)
  /\ \A i \in 1 .. Len(plan) :
       /\ ch[i].chunkNumber = plan[i].chunkNumber
       /\ ch[i].startByte = plan[i].startByte
       /\ ch[i].endByte = plan[i].endByte
       /\ ch[i].chunkSize = plan[i].chunkSize
Thm_C29_PlanImmutable ==
  fileSize # 0 => (SamePlan(chunks, planned) /\ totalChunks = Len(chunks))
\* after a reload, resumeUploadWithFile has replaced the three chunks of a
\* record of which two were flagged, one of them without etag
W_C29_ReplannedAfterReload ==
  /\ replans = 1 /\ file /\ Len(chunks) = 3 /\ chunks[1].chunkData
  /\ chunks[1].uploaded /\ chunks[1].etag
  /\ chunks[2].uploaded /\ ~chunks[2].etag /\ ~chunks[3].uploaded

\* C30: what is written to storage holds, for the record, every chunk's
\* chunkNumber, chunkSize, startByte, endByte, uploaded and etag as the
\* record has them, and neither the file nor the bytes of a chunk; loading it
\* and resuming with the same file leaves the set of uploaded chunks (and
\* their etags) as it was.
SameDescriptors(a, b) ==
  /\ Len(a) = Len(b)
  /\ \A i \in 1 .. Len(a) :
       /\ a[i].chunkNumber = b[i].chunkNumber /\ a[i].chunkSize = b[i].chunkSize
       /\ a[i].startByte = b[i].startByte /\ a[i].endByte = b[i].endByte
       /\ a[i].uploaded = b[i].uploaded /\ a[i].etag = b[i].etag
TaggedNumbers(ch) == {ch[i].chunkNumber : i \in {j \in DOMAIN ch : ch[j].etag}}
ReloadOrReplan ==
  \/ replans' # replans
  \/ fileSize # 0 /\ chunks[1].chunkData /\ ~chunks'[1].chunkData
AtRest == exists /\ status \in {"PAUSED", "CANCELLED", "COMPLETED", "ERROR"}
TickCanFire == uploadStartTimes /\ (uploadTimers \/ progressIntervals)
CE_C31_NoTickAtRest == AtRest => (~uploadTimers /\ ~TickCanFire)
\* handleCorruptedFile has written ERROR and awaits the abort request while
\* the timer of startProgressTracking is still set; no request ever failed
W_C31_TimerRunsInError ==
  /\ exists /\ status = "ERROR" /\ uploadTimers /\ uploadStartTimes
  /\ ~progressIntervals /\ nPause = 0 /\ nCancel = 0 /\ nResume = 0
  /\ \E l \in Loops : lpc[l] = "aborting"

\* C32: the etag of a chunk is set only in the step in which the backend
\* acknowledges that part, and an etag that is set is removed only in the
\* step in which a validation reports the chunk corrupted; pause, resume and
\* the reconciliation with the backend's part list remove none.
Acknowledged(c) ==
  \E l \in Loops :
    task[l][c] = "inflight" /\ task'[l][c] # "inflight" /\ c \in s3Parts'
ReportedCorrupted(c) ==
  \E l \in Loops :
    lpc[l] = "validating" /\ lpc'[l] # "validating" /\ c \in valBad[l]
CE_C32_EtagKept ==
  [][\A c \in Chunks :
       /\ (c \notin etag /\ c \in etag') => Acknowledged(c)
       /\ (c \in etag /\ c \notin etag') => ReportedCorrupted(c)]_vars
\* after a pause and a resume with no backend fault the chunk acknowledged
\* before the pause is flagged uploaded, is held by the session and has no
\* etag
W_C32_EtagLostOnResume ==
  /\ nPause = 1 /\ nResume = 1 /\ listing = 0 /\ nFaults = 0 /\ nCancel = 0
  /\ status = "UPLOADING" /\ sess = "open"
  /\ \E c \in Chunks : c \in uploaded /\ c \in s3Parts /\ c \notin etag

\* C33: whenever a chunk loop issues the completion request, the parts it
\* lists are one entry with its etag for every chunk of the file (the list is
\* built in ascending order of the chunk numbers), also after a pause and a
\* resume.
CE_C33_CompleteListsEveryPart ==
  [][\A l \in Loops :
       (lpc[l] # "completing" /\ lpc'[l] = "completing") => cparts'[l] = Chunks]_vars
\* after a pause and a resume with no backend fault every chunk is flagged
\* uploaded and the completion request in flight lists fewer parts
W_C33_CompleteWithMissingPart ==
  /\ nPause = 1 /\ nResume = 1 /\ nFaults = 0 /\ nCancel = 0
  /\ uploaded = Chunks /\ s3Parts = Chunks /\ status = "UPLOADING"
  /\ \E l \in Loops : lpc[l] = "completing" /\ cparts[l] # Chunks

\* C34: in every reachable state a COMPLETED record has every chunk flagged
\* uploaded with an etag, uploadedChunks = totalChunks and progress = 100.
CE_C34_CompletedIsWhole ==
  (exists /\ status = "COMPLETED") =>
    /\ uploaded = Chunks /\ etag = Chunks
    /\ uploadedChunks = NumChunks /\ progress = 100
\* the part that holds: flags, count and progress of a COMPLETED record
CompletedIsCounted ==
  (exists /\ status = "COMPLETED") =>
    (uploaded = Chunks /\ uploadedChunks = NumChunks /\ progress = 100)
\* with no backend fault the record is COMPLETED with a valid validation
\* result and a chunk flagged uploaded has no etag
W_C34_CompletedWithoutEtag ==
  /\ exists /\ status = "COMPLETED" /\ validationResult = "valid" /\ nFaults = 0
  /\ uploaded = Chunks /\ etag # Chunks /\ nCancel = 0 /\ nValidate = 0

\* C35: at most one chunk loop of the upload runs at any time: no two
\* processUpload activations are under way together, no part number is in
\* flight in two loops, and no two activations are inside completeUpload.
Running(l) == lpc[l] # "idle" \/ TaskPending(l)
InComplete(l) == lpc[l] \in {"completing", "validating", "aborting"}
CE_C35_OneChunkLoop ==
  /\ Cardinality({l \in Loops : Running(l)}) <= 1
  /\ \A c \in Chunks : Cardinality({l \in Loops : task[l][c] = "inflight"}) <= 1
  /\ Cardinality({l \in Loops : InComplete(l)}) <= 1
\* a loop paused during the backoff of a chunk woke up after the resume: the
\* same part is in flight in the old loop and in the resumed one
W_C35_SamePartInTwoLoops ==
  /\ nPause = 1 /\ nResume = 1 /\ nCancel = 0 /\ status = "UPLOADING"
  /\ \E c \in Chunks : \A l \in Loops : task[l][c] = "inflight"
\* a loop paused during its completion request and the resumed loop are both
\* inside completeUpload
W_C35_TwoCompletions ==
  /\ nPause = 1 /\ nResume = 1 /\ nCancel = 0 /\ nFaults = 0
  /\ \A l \in Loops : InComplete(l)

\* C36: a retry timer that fires while the record is PAUSED restarts
\* nothing: the step asks for no part list, starts no chunk loop and leaves
\* the status PAUSED.
TimerFires == scheduled' < scheduled
CE_C36_PausedStaysPaused ==
  [][(TimerFires /\ exists /\ status = "PAUSED")
       => (status' = "PAUSED" /\ UNCHANGED <<listing, lpc, activeUploadProcesses>>)]_vars
\* the caller has resumed an upload in ERROR by hand and paused it again, and
\* the retry timer set by the error is still pending
W_C36_PausedWithTimerPending ==
  /\ exists /\ status = "PAUSED" /\ scheduled > 0 /\ listing = 0
  /\ nPause = 1 /\ nResume = 1 /\ nCancel = 0 /\ retryCount = 1

\* C37: a record is never left in RESUMING or in UPLOADING with nothing
\* under way: when no loop runs and no call, request or timer is pending, the
\* status is neither of the two.
CE_C37_ResumeReentersLoop ==
  (exists /\ Quiescent) => status \notin {"RESUMING", "UPLOADING"}
\* the part that holds: no record rests in UPLOADING
NeverRestsUploading == (exists /\ Quiescent) => status # "UPLOADING"
\* a validation was invalid without naming a chunk and the caller resumed
\* the ERROR record while handleCorruptedFile awaited the abort request:
\* nothing is under way and the record is RESUMING
W_C37_LeftInResuming ==
  /\ exists /\ Quiescent /\ status = "RESUMING"
  /\ nResume = 1 /\ nCancel = 0 /\ nPause = 0 /\ retryCount = 0
  /\ validationResult \in {"thrown", "size", "checksum", "parts"}
\* (retry budget of 1) after one handled chunk failure the resume called by
\* hand and the one of the retry timer overlapped: nothing is under way, a
\* chunk is still to be sent and the record is RESUMING
W_C37_OverlappingResumes ==
  /\ exists /\ Quiescent /\ status = "RESUMING" /\ cfgRetryAttempts = 1
  /\ nResume = 1 /\ nPause = 0 /\ retryCount = 1 /\ uploaded # Chunks

\* ---- an upload left to itself: no call of the caller after startUpload ----

MaxAutoFaults == 11   \* backend requests that fail for transport reasons

AutoLimits ==
  [pauses |-> 0, resumes |-> 0, cancels |-> 0, validates |-> 0,
   faults |-> MaxAutoFaults, refusals |-> 0]

AutoRetryAttempts == 2   \* config.retryAttempts of the unattended upload
InitAuto == InitState(AutoLimits, AutoRetryAttempts)

NextAuto ==
  \/ StartUpload
  \/ StartInitOk
  \/ StartInitFail
  \/ \E l \in Loops, c \in Chunks : ChunkSuccess(l, c)
  \/ \E l \in Loops, c \in Chunks : ChunkFail(l, c)
  \/ \E l \in Loops, c \in Chunks : BackoffWake(l, c)
  \/ \E l \in Loops : CompleteOk(l)
  \/ \E l \in Loops : CompleteFail(l)
  \/ \E l \in Loops : ValidationFinish(l)
  \/ \E l \in Loops : CorruptedAbortReturn(l)
  \/ ScheduledResume
  \/ ResumeListReturn
  \/ S3CleanupSession
  \/ \E c \in Chunks : S3LosePart(c)

\* the backend answers every request, every timer fires and every sleep ends
FairAuto ==
  /\ WF_vars(StartUpload)
  /\ WF_vars(StartInitOk \/ StartInitFail)
  /\ \A l \in Loops, c \in Chunks :
       /\ WF_vars(ChunkSuccess(l, c) \/ ChunkFail(l, c))
       /\ WF_vars(BackoffWake(l, c))
  /\ \A l \in Loops :
       /\ WF_vars(CompleteOk(l) \/ CompleteFail(l))
       /\ WF_vars(ValidationFinish(l))
       /\ WF_vars(CorruptedAbortReturn(l))
  /\ WF_vars(ScheduledResume)
  /\ WF_vars(ResumeListReturn)

SpecAuto == InitAuto /\ [][NextAuto]_vars /\ FairAuto

\* C38: left to itself (no call after startUpload, the backend answering
\* every request) an upload resumes automatically only finitely often and
\* comes to rest: from some point on no retry timer fires, nothing is under
\* way, and the status is COMPLETED, CANCELLED, PAUSED or ERROR with no resume
\* scheduled.
Rests ==
  /\ exists /\ Quiescent
  /\ status \in {"COMPLETED", "CANCELLED", "PAUSED", "ERROR"}
Thm_C38_AutomaticResumesEnd ==
  /\ [](retryCount <= MaxRecordRetries + 1)
  /\ <>[]Rests
  /\ <>[][~TimerFires]_vars
W_C38_RetriesUsedUp ==
  /\ Rests /\ status = "ERROR"
  /\ retryCount = MaxRecordRetries + 1
  /\ nFaults < MaxAutoFaults

\* ---- removeUpload while a continuation of the upload is pending ----

\* removeUpload on a COMPLETED or CANCELLED record whose background checksum
\* or whose cancelUpload has not returned yet; every chunk loop has ended
RemoveUploadPending ==
  /\ RemoveApplies(exists, status)
  /\ bgPc = "running" \/ cancelling > 0
  /\ startPc # "init"
  /\ \A l \in Loops : lpc[l] = "idle" /\ ~TaskPending(l)
  /\ listing = 0 /\ scheduled = 0 /\ mvalPc = "idle"
  /\ exists' = FALSE
  /\ activeUploads' = FALSE
  /\ UNCHANGED <<status, uploaded, etag, uploadedChunks, progress, retryCount,
                 errorMessage, uploadId, validationResult, speed>>
  /\ UNCHANGED <<mgrVars, loopVars, procVars, s3Vars, histVars, extVars>>

RemoveLimits ==
  [pauses |-> 0, resumes |-> 0, cancels |-> MaxCancels, validates |-> 0,
   faults |-> 0, refusals |-> 0]

InitRemove == InitState(RemoveLimits, retryAttempts)

NextRemove ==
  \/ StartUpload
  \/ StartUploadChecksumFailed
  \/ StartInitOk
  \/ ChecksumBackgroundOk
  \/ ChecksumBackgroundFail
  \/ \E l \in Loops, c \in Chunks : ChunkSuccess(l, c)
  \/ \E l \in Loops, c \in Chunks : ChunkAborted(l, c)
  \/ \E l \in Loops : CompleteOk(l)
  \/ \E l \in Loops : ValidationFinish(l)
  \/ CancelUpload
  \/ CancelAbortReturn
  \/ ProgressTick
  \/ RemoveUpload
  \/ RemoveUploadPending

SpecRemove == InitRemove /\ [][NextRemove]_vars

\* C39: only startUpload puts an entry into the registry: once removeUpload
\* has deleted the record, no continuation of the upload (background checksum,
\* chunk completion, progress tick, completion, cancel continuation) makes an
\* entry for the id appear again.
CE_C39_RemovedStaysRemoved ==
  [][(~exists /\ exists') => startPc = "idle"]_vars
W_C39_EntryBackAfterChecksum ==
  /\ exists /\ status = "NONE" /\ checksum = "digest"
  /\ startPc = "done" /\ nCancel = 0
W_C39_EntryBackAfterCancel ==
  /\ exists /\ status = "CANCELLED" /\ ~uploadId
  /\ startPc = "done" /\ nCancel = 1

\* C40: the part-count check of validateFileIntegrity makes the result invalid
\* only when the backend's part list was obtained and its length differs from
\* the number of chunks; a list that could not be obtained (the session is
\* gone after completion, the request failed) does not.
ListObtainable == uploadId /\ sess \in {"open", "completed"}
CE_C40_PartCountNeedsList ==
  [][(validationResult' = "parts" /\ validationResult # "parts")
       => (ListObtainable /\ Cardinality(s3Parts) # NumChunks)]_vars
W_C40_InvalidWithoutList ==
  /\ exists /\ status = "ERROR" /\ validationResult = "parts"
  /\ ~ListObtainable /\ nFaults = 0
  /\ objExists /\ objParts = Chunks
  /\ uploaded = Chunks /\ etag = Chunks
====
